---- MODULE Spec2Model ----
(***************************************************************************)
(* The onboarding workflow of the LLM onboarding server: the per-session   *)
(* OnboardingState record, the extraction step that applies the oracle's   *)
(* JSON update and recomputes the step (server_app/workflow.py), and the   *)
(* chat handler with its session registry (server_app/main.py).            *)
(***************************************************************************)
EXTENDS Integers, Sequences, FiniteSets, TLC

(***************************************************************************)
(* Python values.  A value is a tuple of strings whose first element is    *)
(* the Python type: None, a str, or a list of str.                         *)
(***************************************************************************)
PyNone == <<"NoneType">>

PyStr(s) == <<"str", s>>

PyList(xs) == <<"list">> \o xs

\* Python truthiness, as used by `not x` and `x or "None"`.
Truthy(v) ==
  CASE v[1] = "NoneType" -> FALSE
    [] v[1] = "str" -> v[2] # ""
    [] v[1] = "list" -> Len(v) > 1

(***************************************************************************)
(* Text.  Strings are kept as strings in the state; Chars gives the        *)
(* characters of the texts the model uses, so that lower() and `in` are    *)
(* computed character by character.                                        *)
(***************************************************************************)
ScenarioDText == "Your onboarding was completed successfully."

ScenarioEText == "Still working on it"

UpperCaseText == "ONBOARDING COMPLETED"

NearMissText == "Onboarding is not completed yet"

error_response == "I apologize, but I encountered an error processing your request. Please try again."

NoAiMessageResponse == "I'm sorry, I couldn't process your request."

UserText == "My store id is S1"

\* What the executor gives as output when it stops at its iteration limit.
AgentStoppedText == "Agent stopped due to max iterations."

Chars(s) ==
  CASE s = "Your onboarding was completed successfully." ->
        <<"Y","o","u","r"," ","o","n","b","o","a","r","d","i","n","g"," ","w","a","s"," ","c","o","m","p","l","e","t","e","d"," ","s","u","c","c","e","s","s","f","u","l","l","y",".">>
    [] s = "Still working on it" ->
        <<"S","t","i","l","l"," ","w","o","r","k","i","n","g"," ","o","n"," ","i","t">>
    [] s = "ONBOARDING COMPLETED" ->
        <<"O","N","B","O","A","R","D","I","N","G"," ","C","O","M","P","L","E","T","E","D">>
    [] s = "Onboarding is not completed yet" ->
        <<"O","n","b","o","a","r","d","i","n","g"," ","i","s"," ","n","o","t"," ","c","o","m","p","l","e","t","e","d"," ","y","e","t">>
    [] s = "I apologize, but I encountered an error processing your request. Please try again." ->
        <<"I"," ","a","p","o","l","o","g","i","z","e",","," ","b","u","t"," ","I"," ","e","n","c","o","u","n","t","e","r","e","d"," ","a","n"," ","e","r","r","o","r"," ","p","r","o","c","e","s","s","i","n","g"," ","y","o","u","r"," ","r","e","q","u","e","s","t","."," ","P","l","e","a","s","e"," ","t","r","y"," ","a","g","a","i","n",".">>
    [] s = "I'm sorry, I couldn't process your request." ->
        <<"I","'","m"," ","s","o","r","r","y",","," ","I"," ","c","o","u","l","d","n","'","t"," ","p","r","o","c","e","s","s"," ","y","o","u","r"," ","r","e","q","u","e","s","t",".">>
    [] s = "My store id is S1" ->
        <<"M","y"," ","s","t","o","r","e"," ","i","d"," ","i","s"," ","S","1">>
    [] s = "Agent stopped due to max iterations." ->
        <<"A","g","e","n","t"," ","s","t","o","p","p","e","d"," ","d","u","e"," ","t","o"," ","m","a","x"," ","i","t","e","r","a","t","i","o","n","s",".">>
    [] s = "onboarding completed" ->
        <<"o","n","b","o","a","r","d","i","n","g"," ","c","o","m","p","l","e","t","e","d">>
    [] s = "successfully" ->
        <<"s","u","c","c","e","s","s","f","u","l","l","y">>

UpperLetters ==
  <<"A","B","C","D","E","F","G","H","I","J","K","L","M",
    "N","O","P","Q","R","S","T","U","V","W","X","Y","Z">>

LowerLetters ==
  <<"a","b","c","d","e","f","g","h","i","j","k","l","m",
    "n","o","p","q","r","s","t","u","v","w","x","y","z">>

\* str.lower() on one character.
LowerChar(c) ==
  IF \E i \in 1..Len(UpperLetters) : UpperLetters[i] = c
  THEN LowerLetters[CHOOSE i \in 1..Len(UpperLetters) : UpperLetters[i] = c]
  ELSE c

\* str.lower()
Lower(cs) == [i \in 1..Len(cs) |-> LowerChar(cs[i])]

\* Python's `needle in hay` on strings.
IsSubstring(needle, hay) ==
  \E i \in 0..(Len(hay) - Len(needle)) :
    SubSeq(hay, i + 1, i + Len(needle)) = needle

(***************************************************************************)
(* The onboarding record (server_app/models.py).                           *)
(***************************************************************************)
\* OnboardingState(): every data field None, step "collect_store_id".
OnboardingState ==
  [store_id |-> PyNone,
   team_name |-> PyNone,
   profile_name |-> PyNone,
   b2b_profiles |-> PyNone,
   b2b_identities |-> PyNone,
   selected_profiles |-> PyNone,
   selected_identities |-> PyNone,
   step |-> PyStr("collect_store_id")]

FieldNames == DOMAIN OnboardingState

DataFields == FieldNames \ {"step"}

\* Attributes every pydantic BaseModel instance has that are not fields of
\* the record: hasattr() is true of them, assigning to them raises
\* ValueError ('object has no field').
ModelAttributes == {"dict", "json", "copy"}

\* hasattr(onboarding_state, key)
hasattr(obj, key) == key \in DOMAIN obj \/ key \in ModelAttributes

\* setattr that keeps a value already set: the first write wins.
setattr_if_unset(obj, key, value) ==
  IF key \in DOMAIN obj
  THEN [raised |-> FALSE,
        obj |-> IF obj[key] = PyNone THEN [obj EXCEPT ![key] = value] ELSE obj]
  ELSE [raised |-> TRUE, obj |-> obj]

\* setattr(onboarding_state, key, value): the new object, or the fact that
\* the assignment raised.
setattr(obj, key, value) ==
  IF key \in DOMAIN obj
  THEN [raised |-> FALSE, obj |-> [obj EXCEPT ![key] = value]]
  ELSE [raised |-> TRUE, obj |-> obj]

\* The update loop: for key, value in updates.items(): if hasattr(...) and
\* value != "None": setattr(...).  An assignment that raises ends the loop
\* with the assignments made so far in place.
RECURSIVE ApplyUpdates(_, _)
ApplyUpdates(obj, items) ==
  IF items = <<>>
  THEN [raised |-> FALSE, obj |-> obj]
  ELSE LET key == Head(items)[1]
           value == Head(items)[2]
       IN IF hasattr(obj, key) /\ value # PyStr("None")
          THEN LET r == setattr(obj, key, value)
               IN IF r.raised THEN r ELSE ApplyUpdates(r.obj, Tail(items))
          ELSE ApplyUpdates(obj, Tail(items))

\* The test without lower(): the text is matched as written.
HasCompletionSignalCaseSensitive(current_message) ==
  \/ IsSubstring(Chars("onboarding completed"), Chars(current_message))
  \/ IsSubstring(Chars("successfully"), Chars(current_message))

\* "onboarding completed" in current_message.lower()
\*   or "successfully" in current_message.lower()
HasCompletionSignal(current_message) ==
  \/ IsSubstring(Chars("onboarding completed"), Lower(Chars(current_message)))
  \/ IsSubstring(Chars("successfully"), Lower(Chars(current_message)))

\* The chain with the b2b test ahead of the store info test.
DetermineStepReordered(obj, current_message) ==
  IF ~Truthy(obj.store_id) THEN "collect_store_id"
  ELSE IF ~Truthy(obj.b2b_profiles) \/ ~Truthy(obj.b2b_identities) THEN "fetch_b2b_data"
  ELSE IF ~Truthy(obj.team_name) \/ ~Truthy(obj.profile_name) THEN "fetch_store_info"
  ELSE IF ~Truthy(obj.selected_profiles) \/ ~Truthy(obj.selected_identities)
       THEN "collect_selections"
  ELSE IF HasCompletionSignal(current_message) THEN "completed"
  ELSE "in_progress"

\* The chain with a last rule that looks at the step the record holds.
DetermineStepAlternating(obj, current_message) ==
  IF ~Truthy(obj.store_id) THEN "collect_store_id"
  ELSE IF ~Truthy(obj.team_name) \/ ~Truthy(obj.profile_name) THEN "fetch_store_info"
  ELSE IF ~Truthy(obj.b2b_profiles) \/ ~Truthy(obj.b2b_identities) THEN "fetch_b2b_data"
  ELSE IF ~Truthy(obj.selected_profiles) \/ ~Truthy(obj.selected_identities)
       THEN "collect_selections"
  ELSE IF HasCompletionSignal(current_message) /\ obj.step # PyStr("completed")
       THEN "completed"
  ELSE "in_progress"

\* The if/elif chain that determines the step from the record and the
\* latest assistant text.
DetermineStep(obj, current_message) ==
  IF ~Truthy(obj.store_id) THEN "collect_store_id"
  ELSE IF ~Truthy(obj.team_name) \/ ~Truthy(obj.profile_name) THEN "fetch_store_info"
  ELSE IF ~Truthy(obj.b2b_profiles) \/ ~Truthy(obj.b2b_identities) THEN "fetch_b2b_data"
  ELSE IF ~Truthy(obj.selected_profiles) \/ ~Truthy(obj.selected_identities)
       THEN "collect_selections"
  ELSE IF HasCompletionSignal(current_message) THEN "completed"
  ELSE "in_progress"

(***************************************************************************)
(* The extraction oracle's reply.  kind is "raise" (llm.invoke raised),    *)
(* "malformed" (the content is not JSON: json.loads raises),               *)
(* "nonobject" (JSON, but not an object: updates.items() raises) or        *)
(* "object"; items are the object's (key, value) pairs in document order.  *)
(***************************************************************************)
OracleRaises == [kind |-> "raise", items |-> <<>>]

MalformedJson == [kind |-> "malformed", items |-> <<>>]

NonObjectJson == [kind |-> "nonobject", items |-> <<>>]

JsonObject(items) == [kind |-> "object", items |-> items]

\* _update_state handing back a fresh record when the extraction fails.
update_state_fresh_on_failure(obj, current_message, reply) ==
  IF reply.kind # "object"
  THEN [raised |-> TRUE, obj |-> OnboardingState]
  ELSE LET r == ApplyUpdates(obj, reply.items)
       IN IF r.raised
          THEN r
          ELSE [raised |-> FALSE,
                obj |-> [r.obj EXCEPT !.step = PyStr(DetermineStep(r.obj, current_message))]]

\* _update_state with the step recomputed after the except branch too.
update_state_recompute_always(obj, current_message, reply) ==
  LET r == IF reply.kind # "object"
           THEN [raised |-> TRUE, obj |-> obj]
           ELSE ApplyUpdates(obj, reply.items)
  IN [raised |-> r.raised,
      obj |-> [r.obj EXCEPT !.step = PyStr(DetermineStep(r.obj, current_message))]]

\* _update_state building the record from the update alone.
update_state_from_update(obj, current_message, reply) ==
  IF reply.kind # "object"
  THEN [raised |-> TRUE, obj |-> obj]
  ELSE LET r == ApplyUpdates(OnboardingState, reply.items)
       IN IF r.raised
          THEN r
          ELSE [raised |-> FALSE,
                obj |-> [r.obj EXCEPT !.step = PyStr(DetermineStep(r.obj, current_message))]]

\* The try block of _update_state: the record after the extraction step,
\* and whether the except branch ran (it logs the error and keeps the record
\* as the try block left it).
update_state(obj, current_message, reply) ==
  IF reply.kind # "object"
  THEN [raised |-> TRUE, obj |-> obj]
  ELSE LET r == ApplyUpdates(obj, reply.items)
       IN IF r.raised
          THEN r
          ELSE [raised |-> FALSE,
                obj |-> [r.obj EXCEPT !.step = PyStr(DetermineStep(r.obj, current_message))]]

(***************************************************************************)
(* State.                                                                  *)
(***************************************************************************)
VARIABLES
  session_states,       \* main.py: session id -> WorkflowState (a Python dict)
  pc,                   \* where the chat handler is in the current turn
  current_state,        \* the WorkflowState the turn in flight works on
  extraction_response,  \* the extraction oracle's reply of the current turn
  chat_response,        \* the ChatResponse of the last turn that returned
  update_error,         \* _update_state logged "Error updating state" this turn
  turns,                \* number of turns started
  before_turn,          \* what the registry held for the session when the turn began
  session_response,     \* the response of the state read or reset handled last
  tasks,                \* event loop: the chat handler of each request in flight
  running,              \* event loop: the request whose handler holds the loop, or 0
  session,              \* MCPClient.session: 0 for None, else the number of a session
  lock,                 \* MCPClient._lock: 0 when free, else the caller holding it
  sessions,             \* the ClientSession objects created so far, by number
  callers,              \* the coroutines calling the client, each at its await
  ops,                  \* number of client operations started
  process,              \* the Python process: its str hash and what random yields
  iterations,           \* AgentExecutor: passes of its loop in the invoke under way
  tool_calls,           \* the tool adapters' runs, one per calling coroutine
  st_session_state,     \* chat client: st.session_state of the browser session
  script_run            \* chat client: where the script run stands

\* The state of the turn in flight and of the last responses.
turnVars ==
  <<pc, current_state, extraction_response, chat_response, update_error, turns,
    before_turn, session_response>>

\* The handlers the event loop holds.
loopVars == <<tasks, running>>

\* The MCP client, its callers and the process it runs in.
clientVars == <<session, lock, sessions, callers, ops, process>>

\* The agent executor while it is invoked, and the tools it is given.
agentVars == <<iterations, tool_calls>>

\* The chat client.
uiVars == <<st_session_state, script_run>>

vars == <<session_states, turnVars, loopVars, clientVars, agentVars, uiVars>>

\* Bound on the number of turns of one behaviour.
MaxTurns == 3

\* Bound on the number of chat requests given to the event loop at once.
MaxRequests == 2

HumanMessage(content) == [type |-> "human", content |-> content]

AIMessage(content) == [type |-> "ai", content |-> content]

\* The value of current_state while no turn is in flight.
NoTurn == [session_id |-> "", messages |-> <<>>, onboarding_state |-> OnboardingState]

NoReply == [kind |-> "none", items |-> <<>>]

NoResponse ==
  [status |-> "none", response |-> "", state |-> OnboardingState, completed |-> FALSE]

\* The value of before_turn while no turn is in flight.
NoEntry == [stored |-> FALSE, messages |-> <<>>, onboarding_state |-> OnboardingState]

\* The chat requests the event loop can hold, and a request not yet made.
Requests == 1..MaxRequests

NoTask ==
  [pc |-> "none", session_id |-> "", messages |-> <<>>,
   onboarding_state |-> OnboardingState, response |-> "", reply |-> NoReply]

\* The value of session_response when the last request was a chat turn.
NoRequest == [op |-> "none", session_id |-> "", state |-> OnboardingState, message |-> ""]

\* ChatMessage.session_id: Optional[str], absent, empty or given.
RequestSessionIds == {PyNone, PyStr(""), PyStr("default")}

SessionIdOfAsGiven(session_id) == IF session_id = PyNone THEN "None" ELSE session_id[2]

\* session_id = message.session_id or "default"
SessionIdOf(session_id) == IF Truthy(session_id) THEN session_id[2] ELSE "default"

\* session_states.get(session_id, {"messages": [], "onboarding_state": OnboardingState()})
SessionGet(states, sid) ==
  IF sid \in DOMAIN states
  THEN states[sid]
  ELSE [messages |-> <<>>, onboarding_state |-> OnboardingState]

\* session_states[session_id] = value
SessionPut(states, sid, value) ==
  [k \in DOMAIN states \cup {sid} |-> IF k = sid THEN value ELSE states[k]]

\* What the registry holds for a session id as the handler finds it.
EntryOf(states, sid) ==
  IF sid \in DOMAIN states
  THEN [stored |-> TRUE, messages |-> states[sid].messages,
        onboarding_state |-> states[sid].onboarding_state]
  ELSE NoEntry

\* del session_states[session_id]
SessionDel(states, sid) == [k \in DOMAIN states \ {sid} |-> states[k]]

\* One list and one record shared by every stored session.
WriteThroughShared(states, cur) ==
  IF cur.session_id \in DOMAIN states
  THEN [k \in DOMAIN states |->
          [messages |-> cur.messages, onboarding_state |-> cur.onboarding_state]]
  ELSE states

\* The turn in flight works on the very dict and record objects the registry
\* holds when the session existed: what the turn writes shows there at once.
WriteThrough(states, cur) ==
  IF cur.session_id \in DOMAIN states
  THEN [states EXCEPT ![cur.session_id] =
          [messages |-> cur.messages, onboarding_state |-> cur.onboarding_state]]
  ELSE states

(***************************************************************************)
(* What the two oracles may answer.                                        *)
(***************************************************************************)
\* Outputs of the agent oracle.
AgentOutputs == {ScenarioDText, ScenarioEText}

\* Texts the extraction step may see as the latest assistant message.
AssistantTexts == {ScenarioDText, ScenarioEText, UpperCaseText, NearMissText}

\* A populated value of each data field.
TypicalValue(f) ==
  CASE f = "store_id" -> PyStr("S1")
    [] f = "team_name" -> PyStr("T1")
    [] f = "profile_name" -> PyStr("P1")
    [] f = "b2b_profiles" -> PyList(<<"X", "Y">>)
    [] f = "b2b_identities" -> PyList(<<"I", "J">>)
    [] f = "selected_profiles" -> PyList(<<"X">>)
    [] f = "selected_identities" -> PyList(<<"I">>)

\* Another populated value, and the empty value of the field's type.
OtherValue(f) == IF TypicalValue(f)[1] = "str" THEN PyStr("S2") ELSE PyList(<<"Z">>)

EmptyValue(f) == IF TypicalValue(f)[1] = "str" THEN PyStr("") ELSE PyList(<<>>)

\* An update naming every data field, in declaration order.
FullState ==
  << <<"store_id", TypicalValue("store_id")>>,
     <<"team_name", TypicalValue("team_name")>>,
     <<"profile_name", TypicalValue("profile_name")>>,
     <<"b2b_profiles", TypicalValue("b2b_profiles")>>,
     <<"b2b_identities", TypicalValue("b2b_identities")>>,
     <<"selected_profiles", TypicalValue("selected_profiles")>>,
     <<"selected_identities", TypicalValue("selected_identities")>> >>

\* The (key, value) pairs the extraction oracle's objects are built from.
UpdateEntries ==
  UNION {{<<f, PyNone>>, <<f, EmptyValue(f)>>, <<f, PyStr("None")>>, <<f, OtherValue(f)>>}
          : f \in DataFields}
    \cup {<<"step", PyStr("completed")>>, <<"step", PyStr("None")>>,
          <<"dict", PyStr("x")>>, <<"foo", PyStr("x")>>}

\* The entries whose effect on the rest of an update is of interest: a step,
\* a model attribute, an unknown key and the "None" placeholder.
SpecialEntries ==
  {<<"step", PyStr("completed")>>, <<"step", PyStr("None")>>,
   <<"dict", PyStr("x")>>, <<"foo", PyStr("x")>>, <<"store_id", PyStr("None")>>}

\* The empty object, the full one, every object of one entry, and every
\* object of two entries with distinct keys of which one is special.
Updates ==
  {<<>>, FullState}
    \cup {<<e>> : e \in UpdateEntries}
    \cup {p \in UpdateEntries \X UpdateEntries :
            /\ p[1][1] # p[2][1]
            /\ (p[1] \in SpecialEntries \/ p[2] \in SpecialEntries)}

Replies ==
  {OracleRaises, MalformedJson, NonObjectJson} \cup {JsonObject(u) : u \in Updates}

\* The objects the extraction oracle answers with in the multi-turn runs.
TurnUpdates ==
  {<<>>, FullState,
   << <<"store_id", PyStr("S1")>> >>,
   << <<"store_id", PyStr("S2")>> >>,
   << <<"store_id", PyStr("")>> >>,
   << <<"store_id", PyNone>> >>,
   << <<"store_id", PyStr("None")>> >>,
   << <<"selected_identities", PyList(<<>>)>> >>,
   << <<"selected_identities", PyList(<<"J">>)>> >>,
   << <<"step", PyStr("completed")>> >>,
   << <<"foo", PyStr("x")>>, <<"store_id", PyStr("S1")>> >>,
   << <<"dict", PyStr("x")>>, <<"store_id", PyStr("S2")>> >>,
   << <<"store_id", PyStr("S2")>>, <<"dict", PyStr("x")>> >>,
   << <<"step", PyStr("completed")>>, <<"dict", PyStr("x")>> >>,
   << <<"step", PyStr("completed")>>, <<"store_id", PyStr("S1")>> >>}

TurnReplies ==
  {OracleRaises, MalformedJson, NonObjectJson} \cup {JsonObject(u) : u \in TurnUpdates}

(***************************************************************************)
(* The chat handler (main.py chat) around process_message (workflow.py):   *)
(* the agent node, then the update_state node, then the response.          *)
(* main.py hands the session's whole WorkflowState to the workflow and     *)
(* stores what comes back, so the history of a session runs through every  *)
(* turn; the two nodes and the response are those of workflow.py, which    *)
(* workflow_old.py repeats line for line.  The handler runs one turn at a  *)
(* time; pc is its position in the turn.                                   *)
(***************************************************************************)
\* chat, up to the call of the workflow: the session is looked up or made,
\* and the user's message is appended to its history.
ChatBegin(session_id) ==
  /\ pc = "idle"
  /\ turns < MaxTurns
  /\ LET sid == SessionIdOf(session_id)
         got == SessionGet(session_states, sid)
         cur == [session_id |-> sid,
                 messages |-> Append(got.messages, HumanMessage(UserText)),
                 onboarding_state |-> got.onboarding_state]
     IN /\ current_state' = cur
        /\ session_states' = WriteThrough(session_states, cur)
        /\ before_turn' = EntryOf(session_states, sid)
  /\ pc' = "agent"
  /\ session_response' = NoRequest
  /\ turns' = turns + 1
  /\ UNCHANGED <<loopVars, clientVars, agentVars, uiVars>>
  /\ extraction_response' = NoReply
  /\ update_error' = FALSE
  /\ chat_response' = NoResponse

\* _run_agent: the agent's output, or the fixed apology when it raises, is
\* appended to the messages as an AIMessage.  The executor's loop counter
\* lives during the invoke only.
RunAgent(raises, output) ==
  /\ pc = "agent"
  /\ LET response == IF raises THEN error_response ELSE output
         cur == [current_state EXCEPT !.messages = Append(@, AIMessage(response))]
     IN /\ current_state' = cur
        /\ session_states' = WriteThrough(session_states, cur)
  /\ pc' = "update_state"
  /\ iterations' = 0
  /\ UNCHANGED tool_calls
  /\ UNCHANGED <<extraction_response, chat_response, update_error, turns,
                 before_turn, session_response>>
  /\ UNCHANGED <<loopVars, clientVars, uiVars>>

\* _update_state with the extraction oracle answering `reply`.
UpdateState(reply) ==
  /\ pc = "update_state"
  /\ LET current_message == current_state.messages[Len(current_state.messages)].content
         r == update_state(current_state.onboarding_state, current_message, reply)
         cur == [current_state EXCEPT !.onboarding_state = r.obj]
     IN /\ current_state' = cur
        /\ session_states' = WriteThrough(session_states, cur)
        /\ update_error' = r.raised
  /\ extraction_response' = reply
  /\ pc' = "respond"
  /\ UNCHANGED <<chat_response, turns, before_turn, session_response>>
  /\ UNCHANGED <<loopVars, clientVars, agentVars, uiVars>>

\* The response taken from the first AIMessage of the history.
ResponseOfFirst(messages) ==
  LET ai_messages == SelectSeq(messages, LAMBDA msg : msg.type = "ai")
  IN IF ai_messages # <<>>
     THEN ai_messages[1].content
     ELSE NoAiMessageResponse

\* The response of process_message: the content of the last AIMessage.
ResponseOf(messages) ==
  LET ai_messages == SelectSeq(messages, LAMBDA msg : msg.type = "ai")
  IN IF ai_messages # <<>>
     THEN ai_messages[Len(ai_messages)].content
     ELSE NoAiMessageResponse

\* completed = onboarding_state.step == "completed"
Completed(onboarding_state) == onboarding_state.step = PyStr("completed")

ChatEndRaisesOnUpdateError ==
  /\ pc = "respond"
  /\ IF update_error
     THEN /\ chat_response' =
               [status |-> "error", response |-> "", state |-> OnboardingState,
                completed |-> FALSE]
          /\ UNCHANGED session_states
     ELSE /\ session_states' =
               SessionPut(session_states, current_state.session_id,
                          [messages |-> current_state.messages,
                           onboarding_state |-> current_state.onboarding_state])
          /\ chat_response' =
               [status |-> "ok",
                response |-> ResponseOf(current_state.messages),
                state |-> current_state.onboarding_state,
                completed |-> Completed(current_state.onboarding_state)]
  /\ current_state' = NoTurn
  /\ before_turn' = NoEntry
  /\ pc' = "idle"
  /\ UNCHANGED <<extraction_response, update_error, turns, session_response>>
  /\ UNCHANGED <<loopVars, clientVars, agentVars, uiVars>>

\* The end of process_message and of chat: the session is stored and the
\* ChatResponse returned.
ChatEnd ==
  /\ pc = "respond"
  /\ session_states' =
       SessionPut(session_states, current_state.session_id,
                  [messages |-> current_state.messages,
                   onboarding_state |-> current_state.onboarding_state])
  /\ chat_response' =
       [status |-> "ok",
        response |-> ResponseOf(current_state.messages),
        state |-> current_state.onboarding_state,
        completed |-> Completed(current_state.onboarding_state)]
  /\ current_state' = NoTurn
  /\ before_turn' = NoEntry
  /\ pc' = "idle"
  /\ UNCHANGED <<extraction_response, update_error, turns, session_response>>
  /\ UNCHANGED <<loopVars, clientVars, agentVars, uiVars>>

\* The except branch of chat: an exception that escapes the workflow call or
\* the statements after it is logged and answered with status 500; nothing
\* the turn did before is undone.
ChatFail ==
  /\ pc \in {"agent", "update_state", "respond"}
  /\ chat_response' =
       [status |-> "error", response |-> "", state |-> OnboardingState,
        completed |-> FALSE]
  /\ current_state' = NoTurn
  /\ before_turn' = NoEntry
  /\ pc' = "idle"
  /\ UNCHANGED <<session_states, extraction_response, update_error, turns,
                 session_response>>
  /\ UNCHANGED <<loopVars, clientVars, agentVars, uiVars>>

\* GET /session/{session_id}/state
get_session_state(session_id) ==
  /\ pc = "idle"
  /\ session_response' =
       [op |-> "state", session_id |-> session_id,
        state |-> IF session_id \in DOMAIN session_states
                  THEN session_states[session_id].onboarding_state
                  ELSE OnboardingState,
        message |-> ""]
  /\ UNCHANGED <<session_states, pc, current_state, extraction_response,
                 chat_response, update_error, turns, before_turn>>
  /\ UNCHANGED <<loopVars, clientVars, agentVars, uiVars>>

\* A reset that answers and leaves the registry as it is.
reset_session_keeps_entry(session_id) ==
  /\ pc = "idle"
  /\ session_response' =
       [op |-> "reset", session_id |-> session_id, state |-> OnboardingState,
        message |-> "Session reset successfully"]
  /\ UNCHANGED <<session_states, pc, current_state, extraction_response,
                 chat_response, update_error, turns, before_turn>>
  /\ UNCHANGED <<loopVars, clientVars, agentVars, uiVars>>

\* DELETE /session/{session_id}
reset_session(session_id) ==
  /\ pc = "idle"
  /\ session_states' =
       IF session_id \in DOMAIN session_states
       THEN SessionDel(session_states, session_id)
       ELSE session_states
  /\ session_response' =
       [op |-> "reset", session_id |-> session_id, state |-> OnboardingState,
        message |-> "Session reset successfully"]
  /\ UNCHANGED <<pc, current_state, extraction_response, chat_response,
                 update_error, turns, before_turn>>
  /\ UNCHANGED <<loopVars, clientVars, agentVars, uiVars>>

(***************************************************************************)
(* The tool gateway: MCPTools (mcp_server/tools.py), the mocked tools, and *)
(* MCPClient (server_app/mcp_client.py), which calls them over a remote    *)
(* session and falls back to calling them in process.                      *)
(***************************************************************************)
team_names ==
  <<"Alpha Team", "Beta Squad", "Gamma Force", "Delta Unit",
    "Echo Group", "Foxtrot Division", "Golf Section", "Hotel Brigade">>

profile_names ==
  <<"Enterprise Profile", "Business Profile", "Premium Profile",
    "Standard Profile", "Advanced Profile", "Professional Profile",
    "Corporate Profile", "Executive Profile">>

all_profiles ==
  <<"Manufacturing Profile", "Retail Profile", "Healthcare Profile",
    "Technology Profile", "Finance Profile", "Education Profile",
    "Government Profile", "Non-Profit Profile", "Automotive Profile",
    "Real Estate Profile">>

all_identities ==
  <<"Admin Identity", "Manager Identity", "Operator Identity",
    "Viewer Identity", "Editor Identity", "Analyst Identity",
    "Supervisor Identity", "Coordinator Identity", "Specialist Identity",
    "Executive Identity">>

\* The store id of the calls.
StoreIds == {"S1"}

\* Values of hash(store_id): the hash of a str is a signed machine integer
\* that differs from one Python process to the next and is fixed within one.
HashValues == {-3, 20007}

\* What the random module yields after random.seed(h), the same in every
\* process: the two randint(2, 5) and, for each random.sample, where in the
\* population the sample starts.  The samples taken here are runs of the
\* population, which are some of the samples random.sample can give.
random_seed(h) ==
  IF h < 0
  THEN [profile_count |-> 2, identity_count |-> 5, profile_start |-> 0, identity_start |-> 7]
  ELSE [profile_count |-> 5, identity_count |-> 3, profile_start |-> 8, identity_start |-> 2]

\* A Python process: its str hash.
Processes == {[hash |-> h] : h \in [StoreIds -> HashValues]}

\* The process of the runs in which the tools play no part.
ThisProcess == CHOOSE p \in Processes : TRUE

hash(proc, store_id) == proc.hash[store_id]

\* MCPTools.get_profile_and_team_name_by_store_id
MCPTools_get_profile_and_team_name_by_store_id(proc, store_id) ==
  LET hash_val == hash(proc, store_id) % Len(team_names)
  IN [team_name |-> team_names[hash_val + 1],
      profile_name |-> profile_names[(hash_val % Len(profile_names)) + 1]]

\* random.sample(population, k) of a generator whose sample starts at `start`.
random_sample(population, k, start) ==
  [i \in 1..k |-> population[((start + i - 1) % Len(population)) + 1]]

Min(a, b) == IF a < b THEN a ELSE b

\* MCPTools.get_b2b_profiles_and_identities_by_store_id
MCPTools_get_b2b_profiles_and_identities_by_store_id(proc, store_id) ==
  LET draw == random_seed(hash(proc, store_id))
      profile_count == draw.profile_count
      identity_count == draw.identity_count
  IN [profiles |-> random_sample(all_profiles, Min(profile_count, Len(all_profiles)),
                                 draw.profile_start),
      identities |-> random_sample(all_identities,
                                   Min(identity_count, Len(all_identities)),
                                   draw.identity_start)]

\* format(n, "04d") for 0 <= n < 10000
Format04d(n) ==
  IF n < 10 THEN "000" \o ToString(n)
  ELSE IF n < 100 THEN "00" \o ToString(n)
  ELSE IF n < 1000 THEN "0" \o ToString(n)
  ELSE ToString(n)

\* MCPTools.onboard_user
MCPTools_onboard_user(proc, store_id, team_name, profile_name, selected_profiles, selected_identities) ==
  LET user_details ==
        [store_id |-> store_id, team_name |-> team_name, profile_name |-> profile_name,
         selected_profiles |-> selected_profiles,
         selected_identities |-> selected_identities]
  IN [status |-> "success",
      message |-> "User onboarding process initiated successfully",
      onboarding_id |-> "ONB-" \o Format04d(hash(proc, store_id) % 10000),
      user_details |-> user_details]

\* The three operations of MCPClient and the arguments of the calls.
Operations ==
  {"get_profile_and_team_name", "get_b2b_profiles_and_identities", "onboard_user"}

CallArgs ==
  {[store_id |-> s, team_name |-> "Alpha Team", profile_name |-> "Enterprise Profile",
    selected_profiles |-> <<"Retail Profile">>,
    selected_identities |-> <<"Admin Identity", "Viewer Identity">>] : s \in StoreIds}

NoArgs ==
  [store_id |-> "", team_name |-> "", profile_name |-> "", selected_profiles |-> <<>>,
   selected_identities |-> <<>>]

FallbackSwapped(proc, op, args) ==
  CASE op = "get_profile_and_team_name" ->
         MCPTools_get_profile_and_team_name_by_store_id(proc, args.store_id)
    [] op = "get_b2b_profiles_and_identities" ->
         MCPTools_get_b2b_profiles_and_identities_by_store_id(proc, args.store_id)
    [] op = "onboard_user" ->
         MCPTools_onboard_user(proc, args.store_id, args.team_name, args.profile_name,
                               args.selected_identities, args.selected_profiles)

\* The except branch of each operation: the tool is called in process with
\* the arguments of the call.
Fallback(proc, op, args) ==
  CASE op = "get_profile_and_team_name" ->
         MCPTools_get_profile_and_team_name_by_store_id(proc, args.store_id)
    [] op = "get_b2b_profiles_and_identities" ->
         MCPTools_get_b2b_profiles_and_identities_by_store_id(proc, args.store_id)
    [] op = "onboard_user" ->
         MCPTools_onboard_user(proc, args.store_id, args.team_name, args.profile_name,
                               args.selected_profiles, args.selected_identities)

\* What json.loads gives for the text a working remote call returns: the
\* tool's result as computed in the server's process.
RemoteResults(op, args) == {Fallback(proc, op, args) : proc \in Processes}

\* How `await self.session.call_tool(...)` and the parse of its result end.
CallOutcomes == {"ok", "raises", "empty", "unparseable"}

\* Bounds on the coroutines that use the client at once and on the
\* operations they start.
MaxCallers == 2

MaxOps == 3

Callers == 1..MaxCallers

NoResult == [kind |-> "none", value |-> <<>>]

\* A caller that has not called yet.
NoCaller ==
  [pc |-> "idle", op |-> "none", args |-> NoArgs, on |-> 0, result |-> NoResult,
   error |-> "none", raised |-> FALSE]

\* A ClientSession as constructed: initialize called, not yet answered.
NewSession == [initialized |-> "pending", initialize_calls |-> 1, closed |-> FALSE]

\* A tool adapter that has not been run.
NoTool ==
  [pc |-> "idle", mode |-> "none", refused |-> FALSE, raised |-> FALSE, output |-> <<>>]

\* st.session_state.onboarding_state: {} or the record of the last response.
EmptyDict == <<"dict">>

DictOf(record) == <<"dict", record>>

\* initialize_session_state on the first run of the script in a browser
\* session; session_id is "default" and never assigned again.
initialize_session_state ==
  [messages |-> <<>>, session_id |-> "default", onboarding_state |-> EmptyDict,
   completed |-> FALSE]

\* The script between two runs: nothing sent, no reset asked for.
NoRun == [pc |-> "ready", typed |-> 0, turn |-> 0, last |-> "none", answered |-> FALSE]

\* The chat client as a browser session opens it.
ClientAppStart ==
  /\ st_session_state = initialize_session_state
  /\ script_run = NoRun

\* MCPClient.__init__
ClientStart ==
  /\ session = 0
  /\ lock = 0
  /\ sessions = <<>>
  /\ callers = [c \in Callers |-> NoCaller]
  /\ ops = 0

(***************************************************************************)
(* Spec: the server from start-up, turn after turn.                        *)
(***************************************************************************)
\* The server as started: no session stored, no request in flight.
ServerStart ==
  /\ session_states = [k \in {} |-> NoTurn]
  /\ pc = "idle"
  /\ current_state = NoTurn
  /\ extraction_response = NoReply
  /\ update_error = FALSE
  /\ chat_response = NoResponse
  /\ turns = 0
  /\ before_turn = NoEntry
  /\ session_response = NoRequest
  /\ tasks = [r \in Requests |-> NoTask]
  /\ running = 0
  /\ iterations = 0
  /\ tool_calls = [c \in Callers |-> NoTool]

Init ==
  /\ ServerStart
  /\ ClientStart
  /\ ClientAppStart
  /\ process = ThisProcess

Next ==
  \/ \E session_id \in RequestSessionIds : ChatBegin(session_id)
  \/ \E output \in AgentOutputs : RunAgent(FALSE, output)
  \/ RunAgent(TRUE, error_response)
  \/ \E reply \in TurnReplies : UpdateState(reply)
  \/ ChatEnd
  \/ reset_session("default")

Spec == Init /\ [][Next]_vars

(***************************************************************************)
(* SpecAgent: the turns of one session with the agent executor's loop      *)
(* unfolded.  Each pass asks the reasoning oracle, which answers, asks for *)
(* a tool or raises; the executor counts the passes that ran a tool.       *)
(***************************************************************************)
\* AgentExecutor(..., max_iterations=5)
max_iterations == 5

\* while self._should_continue(iterations, ...)
should_continue == iterations < max_iterations

\* One pass in which the oracle asks for a tool: the tool runs, its result
\* joins the intermediate steps, and the pass is counted.
AgentToolCall ==
  /\ pc = "agent"
  /\ should_continue
  /\ iterations' = iterations + 1
  /\ UNCHANGED <<session_states, turnVars, loopVars, clientVars, tool_calls, uiVars>>

\* A pass in which the oracle gives its final answer: invoke returns it.
AgentFinish(output) ==
  /\ should_continue
  /\ RunAgent(FALSE, output)

\* A pass in which the oracle or the tool raises: invoke raises and the
\* except branch of _run_agent answers.
AgentRaises ==
  /\ should_continue
  /\ RunAgent(TRUE, error_response)

\* The loop ends at the limit: invoke returns the executor's stopped
\* response as its output.
AgentStopped ==
  /\ ~should_continue
  /\ RunAgent(FALSE, AgentStoppedText)

AgentReplies ==
  {MalformedJson, JsonObject(<<>>), JsonObject(<<<<"store_id", PyStr("S1")>>>>)}

NextAgent ==
  \/ ChatBegin(PyNone)
  \/ AgentToolCall
  \/ \E output \in AgentOutputs : AgentFinish(output)
  \/ AgentRaises
  \/ AgentStopped
  \/ \E reply \in AgentReplies : UpdateState(reply)
  \/ ChatEnd

SpecAgent == Init /\ [][NextAgent]_vars

(***************************************************************************)
(* SpecExtract: the extraction step alone, on every record whose data      *)
(* fields are unset or populated, as an earlier turn left it, with every   *)
(* reply of Replies.                                                       *)
(***************************************************************************)
\* The records an earlier turn can have left: any subset of the data fields
\* populated, the step as that turn's extraction determined it.
ExtractRecords(earlier_text) ==
  {LET obj == [f \in FieldNames |->
                 IF f \in populated THEN TypicalValue(f) ELSE OnboardingState[f]]
   IN [obj EXCEPT !.step = PyStr(DetermineStep(obj, earlier_text))] :
     populated \in SUBSET DataFields}

\* The turn in flight after the agent node, one earlier turn behind it.
ExtractStatesAfter(earlier_text) ==
  {[session_id |-> "default",
    messages |-> <<HumanMessage(UserText), AIMessage(earlier_text),
                   HumanMessage(UserText), AIMessage(text)>>,
    onboarding_state |-> obj] :
     text \in AssistantTexts, obj \in ExtractRecords(earlier_text)}

ExtractStates == ExtractStatesAfter(ScenarioDText)

InitExtract ==
  /\ current_state \in ExtractStates
  /\ session_states =
       [k \in {"default"} |->
          [messages |-> current_state.messages,
           onboarding_state |-> current_state.onboarding_state]]
  /\ pc = "update_state"
  /\ extraction_response = NoReply
  /\ update_error = FALSE
  /\ chat_response = NoResponse
  /\ turns = 2
  /\ before_turn =
       [stored |-> TRUE, messages |-> SubSeq(current_state.messages, 1, 2),
        onboarding_state |-> current_state.onboarding_state]
  /\ session_response = NoRequest
  /\ tasks = [r \in Requests |-> NoTask]
  /\ running = 0
  /\ iterations = 0
  /\ tool_calls = [c \in Callers |-> NoTool]
  /\ ClientStart
  /\ ClientAppStart
  /\ process = ThisProcess

NextExtract == \E reply \in Replies : UpdateState(reply)

SpecExtract == InitExtract /\ [][NextExtract]_vars

(***************************************************************************)
(* SpecStep: the extraction step alone, as in SpecExtract, with replies    *)
(* that supply a value under the "step" key.                               *)
(***************************************************************************)
\* What the oracle can put under "step": a step of the workflow, the
\* placeholder "None", a word of its own, null.
SuppliedSteps ==
  {PyStr("completed"), PyStr("collect_store_id"), PyStr("None"), PyStr("done"), PyNone}

\* The step alone, and the step next to a key that names a model attribute
\* or a data field, in either order.
StepUpdates ==
  UNION {{<< <<"step", v>> >>,
          << <<"step", v>>, <<"dict", PyStr("x")>> >>,
          << <<"dict", PyStr("x")>>, <<"step", v>> >>,
          << <<"step", v>>, <<"store_id", PyStr("S2")>> >>} : v \in SuppliedSteps}

StepReplies ==
  {OracleRaises, MalformedJson, NonObjectJson} \cup {JsonObject(u) : u \in StepUpdates}

NextStep == \E reply \in StepReplies : UpdateState(reply)

SpecStep == InitExtract /\ [][NextStep]_vars

(***************************************************************************)
(* SpecSessions: the server with two sessions, with turns that fail, and   *)
(* with the state read and the reset of either session between turns.      *)
(***************************************************************************)
\* The session ids of the requests: absent (the "default" session) or "other".
SessionRequests == {PyNone, PyStr("other")}

SessionIds == {SessionIdOf(session_id) : session_id \in SessionRequests}

\* The objects the extraction oracle answers with in these runs.
SessionReplies ==
  {MalformedJson,
   JsonObject(<< <<"store_id", PyStr("S1")>> >>),
   JsonObject(<< <<"store_id", PyStr("S2")>> >>)}

NextSessions ==
  \/ \E session_id \in SessionRequests : ChatBegin(session_id)
  \/ RunAgent(FALSE, ScenarioEText)
  \/ RunAgent(TRUE, error_response)
  \/ \E reply \in SessionReplies : UpdateState(reply)
  \/ ChatEnd
  \/ ChatFail
  \/ \E session_id \in SessionIds : get_session_state(session_id)
  \/ \E session_id \in SessionIds : reset_session(session_id)

SpecSessions == Init /\ [][NextSessions]_vars

(***************************************************************************)
(* SpecDefault: turns whose request carries no session id, or the id       *)
(* "default", with the state read and the reset of "default" between them. *)
(***************************************************************************)
\* ChatMessage.session_id left out (None), and given as "default".
DefaultRequests == {PyNone, PyStr("default")}

NextDefault ==
  \/ \E session_id \in DefaultRequests : ChatBegin(session_id)
  \/ \E output \in AgentOutputs : RunAgent(FALSE, output)
  \/ \E reply \in SessionReplies : UpdateState(reply)
  \/ ChatEnd
  \/ get_session_state("default")
  \/ reset_session("default")

SpecDefault == Init /\ [][NextDefault]_vars

(***************************************************************************)
(* SpecLoop: chat requests that arrive while others are being handled.     *)
(* uvicorn runs the handlers of one process on one event loop (main.py     *)
(* 116-121); a handler keeps the loop from one await that suspends to the  *)
(* next.  Here a turn is two steps, up to the await of main.py 80 and from *)
(* it to the return.                                                       *)
(***************************************************************************)
\* The await of main.py 80 hands the loop to other handlers.
AwaitYieldsToLoop == TRUE

\* process_message is a plain def that runs the graph with invoke
\* (workflow.py 200-209, workflow_old.py 196-206): the call in main.py 80 has
\* run the whole turn before anything is awaited, and the handler does not
\* give up the loop between reading the session and storing it.
AwaitYields == FALSE

\* The replies of the extraction oracle in these runs.
LoopReplies ==
  {JsonObject(<< <<"store_id", TypicalValue("store_id")>> >>),
   JsonObject(<< <<"team_name", TypicalValue("team_name")>> >>)}

\* A chat request arrives and its handler is scheduled.
Arrive(r, session_id) ==
  /\ tasks[r].pc = "none"
  /\ tasks' = [tasks EXCEPT ![r] =
                 [NoTask EXCEPT !.pc = "arrived", !.session_id = SessionIdOf(session_id)]]
  /\ UNCHANGED <<session_states, turnVars, running, clientVars, agentVars, uiVars>>

\* chat up to the await: the session is looked up or made and the user's
\* message appended.
ChatRead(r) ==
  /\ tasks[r].pc = "arrived"
  /\ running = 0
  /\ LET sid == tasks[r].session_id
         got == SessionGet(session_states, sid)
         cur == [session_id |-> sid,
                 messages |-> Append(got.messages, HumanMessage(UserText)),
                 onboarding_state |-> got.onboarding_state]
     IN /\ session_states' = WriteThrough(session_states, cur)
        /\ tasks' = [tasks EXCEPT ![r] =
                       [pc |-> "awaiting", session_id |-> sid, messages |-> cur.messages,
                        onboarding_state |-> cur.onboarding_state, response |-> "",
                        reply |-> NoReply]]
  /\ running' = IF AwaitYields THEN 0 ELSE r
  /\ UNCHANGED <<turnVars, clientVars, agentVars, uiVars>>

\* chat from the workflow's result to the return: the agent node, the
\* update_state node, the store and the response.
ChatStore(r, raises, output, reply) ==
  /\ tasks[r].pc = "awaiting"
  /\ running = IF AwaitYields THEN 0 ELSE r
  /\ LET t == tasks[r]
         response == IF raises THEN error_response ELSE output
         messages == Append(t.messages, AIMessage(response))
         updated == update_state(t.onboarding_state, response, reply).obj
     IN /\ session_states' =
             SessionPut(session_states, t.session_id,
                        [messages |-> messages, onboarding_state |-> updated])
        /\ tasks' = [tasks EXCEPT ![r] =
                       [pc |-> "done", session_id |-> t.session_id, messages |-> messages,
                        onboarding_state |-> updated, response |-> response,
                        reply |-> reply]]
  /\ running' = 0
  /\ UNCHANGED <<turnVars, clientVars, agentVars, uiVars>>

NextLoop ==
  \/ \E r \in Requests, session_id \in SessionRequests : Arrive(r, session_id)
  \/ \E r \in Requests : ChatRead(r)
  \/ \E r \in Requests, output \in AgentOutputs, reply \in LoopReplies :
       ChatStore(r, FALSE, output, reply)
  \/ \E r \in Requests, reply \in LoopReplies : ChatStore(r, TRUE, error_response, reply)

SpecLoop == Init /\ [][NextLoop]_vars

(***************************************************************************)
(* SpecReset: SpecLoop with the reset and the state read of a session,     *)
(* whose handlers await nothing: each runs in one piece when the loop is   *)
(* free.                                                                   *)
(***************************************************************************)
\* The loop runs the handler of a DELETE /session/{session_id}.
ResetRuns(session_id) ==
  /\ running = 0
  /\ reset_session(session_id)

\* The loop runs the handler of a GET /session/{session_id}/state.
ReadRuns(session_id) ==
  /\ running = 0
  /\ get_session_state(session_id)

NextReset ==
  \/ NextLoop
  \/ \E session_id \in SessionIds : ResetRuns(session_id)
  \/ \E session_id \in SessionIds : ReadRuns(session_id)

SpecReset == Init /\ [][NextReset]_vars

(***************************************************************************)
(* SpecClient: MCPClient used by several coroutines of one event loop.     *)
(* A step runs a coroutine from one await that suspends to the next: the   *)
(* wait for the lock when it is held, session.initialize(),                *)
(* session.call_tool() and session.close().                                *)
(***************************************************************************)
\* A client that takes itself for unconnected at every check.
IsNoneAlways(s) == TRUE

\* `self.session is None`, and `not self.session` in close
IsNone(s) == s = 0

\* The caller has returned from its operation with `result`, after the
\* failure `error` if there was one.
Returned(me, result, error) ==
  [me EXCEPT !.pc = "done", !.result = [kind |-> "value", value |-> result],
             !.error = error]

\* The caller's except branch: the failure is logged and the tool called in
\* process.
FellBack(me, error) == Returned(me, Fallback(process, me.op, me.args), error)

\* _ensure_connection from its first line, then the call of the tool when
\* it returns: the session is used when there is one, else the lock is
\* waited for when held, else the session is created under the lock and
\* initialize awaited, unless creating it raises.
EnsureConnection(c, me, raises) ==
  IF ~IsNone(session)
  THEN /\ callers' = [callers EXCEPT ![c] = [me EXCEPT !.pc = "calling", !.on = session]]
       /\ UNCHANGED <<session, lock, sessions>>
  ELSE IF lock # 0
  THEN /\ callers' = [callers EXCEPT ![c] = [me EXCEPT !.pc = "wait_lock"]]
       /\ UNCHANGED <<session, lock, sessions>>
  ELSE IF raises
  THEN /\ callers' = [callers EXCEPT ![c] = FellBack(me, "connect")]
       /\ UNCHANGED <<session, lock, sessions>>
  ELSE /\ sessions' = Append(sessions, NewSession)
       /\ session' = Len(sessions) + 1
       /\ lock' = c
       /\ callers' = [callers EXCEPT ![c] =
                        [me EXCEPT !.pc = "initializing", !.on = Len(sessions) + 1]]

\* One of the three operations is called.
GatewayCall(c, op, args, raises) ==
  /\ callers[c].pc \in {"idle", "done"}
  /\ ops < MaxOps
  /\ ops' = ops + 1
  /\ EnsureConnection(c, [NoCaller EXCEPT !.op = op, !.args = args], raises)
  /\ UNCHANGED <<session_states, turnVars, loopVars, agentVars, uiVars, process>>

\* The lock is free and the waiting caller takes it: line 22 onwards.
LockAcquired(c, raises) ==
  /\ callers[c].pc = "wait_lock"
  /\ lock = 0
  /\ EnsureConnection(c, callers[c], raises)
  /\ UNCHANGED <<session_states, turnVars, loopVars, agentVars, uiVars, ops, process>>

\* session.initialize() returns or raises; the lock is released; line 44
\* then calls the tool on self.session.
InitializeReturns(c, raises) ==
  /\ callers[c].pc = "initializing"
  /\ lock' = 0
  /\ sessions' = [sessions EXCEPT ![callers[c].on].initialized =
                    IF raises THEN "failed" ELSE "yes"]
  /\ callers' = [callers EXCEPT ![c] =
                   IF raises THEN FellBack(@, "initialize")
                   ELSE IF IsNone(session) THEN FellBack(@, "no_session")
                   ELSE [@ EXCEPT !.pc = "calling", !.on = session]]
  /\ UNCHANGED <<session_states, turnVars, loopVars, agentVars, uiVars, session, ops, process>>

\* session.call_tool() returns or raises, and its result is parsed.
CallReturns(c, outcome, payload) ==
  /\ callers[c].pc = "calling"
  /\ callers' = [callers EXCEPT ![c] =
                   IF outcome = "ok" THEN Returned(@, payload, "none")
                   ELSE FellBack(@, outcome)]
  /\ UNCHANGED <<session_states, turnVars, loopVars, agentVars, uiVars, session, lock, sessions, ops,
                 process>>

\* close() up to its await.
Close(c) ==
  /\ callers[c].pc \in {"idle", "done"}
  /\ ops < MaxOps
  /\ ops' = ops + 1
  /\ callers' = [callers EXCEPT ![c] =
                   IF IsNone(session)
                   THEN [NoCaller EXCEPT !.op = "close", !.pc = "done"]
                   ELSE [NoCaller EXCEPT !.op = "close", !.pc = "closing", !.on = session]]
  /\ UNCHANGED <<session_states, turnVars, loopVars, agentVars, uiVars, session, lock, sessions, process>>

\* session.close() returns, and self.session is set to None, or it raises.
CloseReturns(c, raises) ==
  /\ callers[c].pc = "closing"
  /\ IF raises
     THEN /\ callers' = [callers EXCEPT ![c].pc = "done", ![c].raised = TRUE]
          /\ UNCHANGED <<session, sessions>>
     ELSE /\ callers' = [callers EXCEPT ![c].pc = "done"]
          /\ session' = 0
          /\ sessions' = [sessions EXCEPT ![callers[c].on].closed = TRUE]
  /\ UNCHANGED <<session_states, turnVars, loopVars, agentVars, uiVars, lock, ops, process>>

InitClient ==
  /\ ServerStart
  /\ ClientStart
  /\ ClientAppStart
  /\ process \in Processes

NextClient ==
  \/ \E c \in Callers, op \in Operations, args \in CallArgs, raises \in BOOLEAN :
       GatewayCall(c, op, args, raises)
  \/ \E c \in Callers, raises \in BOOLEAN : LockAcquired(c, raises)
  \/ \E c \in Callers, raises \in BOOLEAN : InitializeReturns(c, raises)
  \/ \E c \in Callers, outcome \in CallOutcomes :
       /\ callers[c].pc = "calling"
       /\ \E payload \in RemoteResults(callers[c].op, callers[c].args) :
            CallReturns(c, outcome, payload)
  \/ \E c \in Callers : Close(c)
  \/ \E c \in Callers, raises \in BOOLEAN : CloseReturns(c, raises)

SpecClient == InitClient /\ [][NextClient]_vars

(***************************************************************************)
(* SpecTools: the three tool adapters over the client.  _arun awaits the   *)
(* gateway operation on the caller's loop; _run hands it to asyncio.run,   *)
(* which refuses when the calling thread has a running event loop.         *)
(***************************************************************************)
\* str(e) of the RuntimeError asyncio.run raises on a thread whose loop is
\* running.
RunningLoopText == "asyncio.run() cannot be called from a running event loop"

\* The two entry points of an adapter.
ToolModes == {"run", "arun"}

\* Bound on the adapter runs of one behaviour.
MaxToolRuns == MaxOps - 1

\* return {"error": str(e)}
ErrorMapping(text) == [error |-> text]

\* An adapter whose except branch re-raises.
AdapterReturnReraising(tool, raised, text, result) ==
  IF raised
  THEN [tool EXCEPT !.pc = "returned", !.raised = TRUE]
  ELSE [tool EXCEPT !.pc = "returned", !.output = result]

\* The try of _run and _arun once running the gateway operation has ended:
\* `return result`, or the except branch when it raised.
AdapterReturn(tool, raised, text, result) ==
  IF raised
  THEN [tool EXCEPT !.pc = "returned", !.output = ErrorMapping(text)]
  ELSE [tool EXCEPT !.pc = "returned", !.output = result]

\* _run or _arun is called: the gateway operation starts, unless it is
\* handed to asyncio.run on a thread whose loop is running.
ToolCall(c, op, args, mode, in_loop, raises) ==
  /\ tool_calls[c].pc # "running"
  /\ callers[c].pc \in {"idle", "done"}
  /\ ops < MaxToolRuns
  /\ ops' = ops + 1
  /\ LET tool == [NoTool EXCEPT !.pc = "running", !.mode = mode]
     IN IF mode = "run" /\ in_loop
        THEN /\ tool_calls' =
                  [tool_calls EXCEPT ![c] =
                     AdapterReturn([tool EXCEPT !.refused = TRUE], TRUE,
                                   RunningLoopText, <<>>)]
             /\ UNCHANGED <<session, lock, sessions, callers>>
        ELSE /\ tool_calls' = [tool_calls EXCEPT ![c] = tool]
             /\ EnsureConnection(c, [NoCaller EXCEPT !.op = op, !.args = args], raises)
  /\ UNCHANGED <<session_states, turnVars, loopVars, iterations, process, uiVars>>

\* The gateway operation has ended and the adapter returns.
ToolReturns(c) ==
  /\ tool_calls[c].pc = "running"
  /\ callers[c].pc = "done"
  /\ tool_calls' =
       [tool_calls EXCEPT ![c] =
          AdapterReturn(@, callers[c].raised, callers[c].error,
                        callers[c].result.value)]
  /\ UNCHANGED <<session_states, turnVars, loopVars, clientVars, iterations, uiVars>>

\* The adapters never call close, so the session is set for as long as the
\* lock is held and no caller waits for the lock.
NextTools ==
  \/ \E c \in Callers, op \in Operations, args \in CallArgs, mode \in ToolModes,
        in_loop \in BOOLEAN, raises \in BOOLEAN :
       ToolCall(c, op, args, mode, in_loop, raises)
  \/ \E c \in Callers, raises \in BOOLEAN : InitializeReturns(c, raises)
  \/ \E c \in Callers, outcome \in CallOutcomes :
       /\ callers[c].pc = "calling"
       /\ \E payload \in RemoteResults(callers[c].op, callers[c].args) :
            CallReturns(c, outcome, payload)
  \/ \E c \in Callers : ToolReturns(c)

SpecTools == Init /\ [][NextTools]_vars

(***************************************************************************)
(* SpecChat: the chat client (client_app/main.py) of one browser session   *)
(* against the server.  The script posts a message and waits for the       *)
(* response; the server's handlers run the turn meanwhile.                 *)
(***************************************************************************)
\* How a request of the client ends: the server answers it, the server is
\* never reached, or the server handles it and its answer never arrives.
RequestOutcomes == {"answered", "unreachable", "lost"}

\* The extraction replies of the turns the client asks for.
ChatReplies == {MalformedJson, JsonObject(FullState)}

\* main, lines 225-234: the chat input is there while completed is false;
\* the user's message joins the local messages and is posted.  The user
\* types at most MaxTurns messages.
ChatInput ==
  /\ script_run.pc = "ready"
  /\ ~st_session_state.completed
  /\ script_run.typed < MaxTurns
  /\ st_session_state' =
       [st_session_state EXCEPT
          !.messages = Append(@, [role |-> "user", content |-> UserText])]
  /\ script_run' =
       [pc |-> "sending", typed |-> script_run.typed + 1, turn |-> turns,
        last |-> "send", answered |-> FALSE]
  /\ UNCHANGED <<session_states, turnVars, loopVars, clientVars, agentVars>>

\* The posted message reaches the server, with the client's session id.
ChatPosted ==
  /\ script_run.pc = "sending"
  /\ turns = script_run.turn
  /\ ChatBegin(PyStr(st_session_state.session_id))

\* send_message returns and main goes on, lines 236-248: the response's
\* text, state and completed flag are taken over, or nothing when
\* send_message gave None.
SendReturns(outcome) ==
  /\ script_run.pc = "sending"
  /\ pc = "idle"
  /\ IF outcome = "unreachable" THEN turns = script_run.turn ELSE turns > script_run.turn
  /\ st_session_state' =
       IF outcome = "answered" /\ chat_response.status = "ok"
       THEN [st_session_state EXCEPT
               !.messages =
                  Append(@, [role |-> "assistant", content |-> chat_response.response]),
               !.onboarding_state = DictOf(chat_response.state),
               !.completed = chat_response.completed]
       ELSE st_session_state
  /\ script_run' = [script_run EXCEPT !.pc = "ready", !.answered = outcome = "answered"]
  /\ UNCHANGED <<session_states, turnVars, loopVars, clientVars, agentVars>>

\* A reset that clears the local state however the request ended.
ResetSessionClearsAlways(outcome) ==
  /\ script_run.pc = "ready"
  /\ pc = "idle"
  /\ IF outcome = "unreachable"
     THEN UNCHANGED <<session_states, session_response>>
     ELSE /\ session_states' =
               IF st_session_state.session_id \in DOMAIN session_states
               THEN SessionDel(session_states, st_session_state.session_id)
               ELSE session_states
          /\ session_response' =
               [op |-> "reset", session_id |-> st_session_state.session_id,
                state |-> OnboardingState, message |-> "Session reset successfully"]
  /\ st_session_state' =
       [st_session_state EXCEPT !.messages = <<>>, !.onboarding_state = EmptyDict,
                                !.completed = FALSE]
  /\ script_run' = [script_run EXCEPT !.last = "reset", !.answered = outcome = "answered"]
  /\ UNCHANGED <<pc, current_state, extraction_response, chat_response,
                 update_error, turns, before_turn>>
  /\ UNCHANGED <<loopVars, clientVars, agentVars>>

\* The reset button, lines 180-182 and reset_session: DELETE
\* /session/{session_id} is sent, which the server handles as its
\* reset_session; the local messages, record and flag are cleared when the
\* request returns, and left as they are when it raises.
ResetSession(outcome) ==
  /\ script_run.pc = "ready"
  /\ pc = "idle"
  /\ IF outcome = "unreachable"
     THEN UNCHANGED <<session_states, session_response>>
     ELSE /\ session_states' =
               IF st_session_state.session_id \in DOMAIN session_states
               THEN SessionDel(session_states, st_session_state.session_id)
               ELSE session_states
          /\ session_response' =
               [op |-> "reset", session_id |-> st_session_state.session_id,
                state |-> OnboardingState, message |-> "Session reset successfully"]
  /\ st_session_state' =
       IF outcome = "answered"
       THEN [st_session_state EXCEPT !.messages = <<>>, !.onboarding_state = EmptyDict,
                                     !.completed = FALSE]
       ELSE st_session_state
  /\ script_run' = [script_run EXCEPT !.last = "reset", !.answered = outcome = "answered"]
  /\ UNCHANGED <<pc, current_state, extraction_response, chat_response,
                 update_error, turns, before_turn>>
  /\ UNCHANGED <<loopVars, clientVars, agentVars>>

NextChat ==
  \/ ChatInput
  \/ ChatPosted
  \/ \E output \in AgentOutputs : RunAgent(FALSE, output)
  \/ RunAgent(TRUE, error_response)
  \/ \E reply \in ChatReplies : UpdateState(reply)
  \/ ChatEnd
  \/ ChatFail
  \/ \E outcome \in RequestOutcomes : SendReturns(outcome)
  \/ \E outcome \in RequestOutcomes : ResetSession(outcome)

SpecChat == Init /\ [][NextChat]_vars

(***************************************************************************)
(* Properties.                                                             *)
(***************************************************************************)
\* A field is empty when it is None, the empty string or the empty list.
IsEmpty(v) == v \in {PyNone, PyStr(""), PyList(<<>>)}

AllDataFieldsSet(obj) == \A f \in DataFields : ~IsEmpty(obj[f])

\* The record of the turn in flight, every stored record and the record of
\* the last response.
RecordsInState ==
  {session_states[sid].onboarding_state : sid \in DOMAIN session_states}
    \cup (IF pc = "idle" THEN {} ELSE {current_state.onboarding_state})
    \cup (IF chat_response.status = "ok" THEN {chat_response.state} ELSE {})

\* The latest assistant text of the turn in flight.
LatestText == current_state.messages[Len(current_state.messages)].content

\* The extraction step of the turn in flight ran to the end of its try block.
ExtractionSucceeded == pc = "respond" /\ ~update_error

\* C1: in every reachable state, a record whose step is "completed" has
\* every data field non-empty.
C1_CompletedImpliesAllFields ==
  \A obj \in RecordsInState : obj.step = PyStr("completed") => AllDataFieldsSet(obj)

\* C2: after a successful extraction step the step is the one of the first
\* matching rule: store_id empty, then team_name or profile_name empty, then
\* a b2b list empty, then a selection empty, whatever the assistant text.
C2_StepByPriorityRules ==
  ExtractionSucceeded =>
    LET obj == current_state.onboarding_state
        no_store == IsEmpty(obj.store_id)
        no_info == IsEmpty(obj.team_name) \/ IsEmpty(obj.profile_name)
        no_b2b == IsEmpty(obj.b2b_profiles) \/ IsEmpty(obj.b2b_identities)
        no_selection == IsEmpty(obj.selected_profiles) \/ IsEmpty(obj.selected_identities)
    IN /\ no_store => obj.step = PyStr("collect_store_id")
       /\ ~no_store /\ no_info => obj.step = PyStr("fetch_store_info")
       /\ ~no_store /\ ~no_info /\ no_b2b => obj.step = PyStr("fetch_b2b_data")
       /\ ~no_store /\ ~no_info /\ ~no_b2b /\ no_selection =>
            obj.step = PyStr("collect_selections")

\* Scenarios B and C after a successful extraction: store_id alone gives
\* "fetch_store_info" however the text reads, and an update emptying the b2b
\* lists of a full record gives "fetch_b2b_data".
C2_Witness ==
  /\ ExtractionSucceeded
  /\ extraction_response.items = << <<"b2b_profiles", PyList(<<>>)>>, <<"foo", PyStr("x")>> >>
  /\ LatestText = ScenarioDText
  /\ current_state.onboarding_state.store_id = PyStr("S1")
  /\ current_state.onboarding_state.profile_name = PyStr("P1")
  /\ current_state.onboarding_state.selected_identities = PyList(<<"I">>)
  /\ current_state.onboarding_state.step = PyStr("fetch_b2b_data")

\* Two characters are the same letter, whatever their case.
SameLetter(a, b) ==
  \/ a = b
  \/ \E i \in 1..Len(UpperLetters) : {a, b} = {UpperLetters[i], LowerLetters[i]}

\* pattern occurs in text at some offset, compared letter by letter without
\* regard to case.
ContainsIgnoringCase(pattern, text) ==
  \E k \in 0..(Len(text) - Len(pattern)) :
    \A j \in 1..Len(pattern) : SameLetter(text[k + j], pattern[j])

CompletionSignalled(text) ==
  \/ ContainsIgnoringCase(Chars("onboarding completed"), Chars(text))
  \/ ContainsIgnoringCase(Chars("successfully"), Chars(text))

\* C3: after a successful extraction on a record whose data fields are all
\* non-empty, the step is "completed" exactly when the latest assistant text
\* contains "onboarding completed" or "successfully" in any case, and
\* "in_progress" otherwise.
C3_CompletedIffSignal ==
  ExtractionSucceeded /\ AllDataFieldsSet(current_state.onboarding_state) =>
    current_state.onboarding_state.step =
      IF CompletionSignalled(LatestText) THEN PyStr("completed") ELSE PyStr("in_progress")

\* A full record whose latest text is the upper-case signal is completed.
C3_Witness ==
  /\ ExtractionSucceeded
  /\ AllDataFieldsSet(current_state.onboarding_state)
  /\ LatestText = UpperCaseText
  /\ current_state.onboarding_state.step = PyStr("completed")

\* Scenario E: a full record with no signal in the text is in progress.
C3_WitnessInProgress ==
  /\ ExtractionSucceeded
  /\ AllDataFieldsSet(current_state.onboarding_state)
  /\ LatestText = NearMissText
  /\ current_state.onboarding_state.step = PyStr("in_progress")

\* The record before and after the step a behaviour takes.
OldRecord == current_state.onboarding_state

NewRecord == current_state'.onboarding_state

\* The step is the extraction step of the turn in flight.
ExtractionStep == pc = "update_state" /\ pc' = "respond"

\* The keys of an update object.
KeysOf(items) == {items[i][1] : i \in DOMAIN items}

\* C4: when the extraction step fails because the oracle raises or its reply
\* is not valid JSON, every data field after the step is as it was before.
C4_FailureKeepsDataFields ==
  [][ExtractionStep /\ extraction_response'.kind \in {"raise", "malformed"} =>
       \A f \in DataFields : NewRecord[f] = OldRecord[f]]_vars

\* A malformed reply met a record with populated fields, which are still
\* there after the step.
C4_Witness ==
  /\ pc = "respond"
  /\ update_error
  /\ extraction_response.kind = "malformed"
  /\ current_state.onboarding_state.store_id = PyStr("S1")
  /\ current_state.onboarding_state.selected_profiles = PyList(<<"X">>)

\* C5 as claimed: after a malformed extraction reply the step is the one the
\* priority rules give for the unchanged data fields and the latest text.
C5_StepRecomputedOnMalformed ==
  pc = "respond" /\ extraction_response.kind = "malformed" =>
    current_state.onboarding_state.step =
      PyStr(DetermineStep(current_state.onboarding_state, LatestText))

\* C5 as amended: a malformed extraction reply leaves the step as it was
\* before the turn; it is not recomputed.
C5_MalformedKeepsStep ==
  [][ExtractionStep /\ extraction_response'.kind = "malformed" =>
       NewRecord.step = OldRecord.step]_vars

\* A full record completed by an earlier turn stays "completed" after a
\* malformed reply although the latest text carries no completion signal.
C5_Witness ==
  /\ pc = "respond"
  /\ extraction_response.kind = "malformed"
  /\ AllDataFieldsSet(current_state.onboarding_state)
  /\ LatestText = ScenarioEText
  /\ DetermineStep(current_state.onboarding_state, LatestText) = "in_progress"
  /\ current_state.onboarding_state.step = PyStr("completed")

WithoutStepKey(items) == SelectSeq(items, LAMBDA e : e[1] # "step")

\* Two update objects that differ at most in the presence or value of "step".
SameButStepKey(r1, r2) ==
  /\ r1.kind = "object"
  /\ r2.kind = "object"
  /\ WithoutStepKey(r1.items) = WithoutStepKey(r2.items)

\* C6: the oracle's "step" is advisory: any update that differs from the one
\* applied only in its "step" key yields, on the same record and text, the
\* same record.
C6_StepKeyIsAdvisory ==
  [][ExtractionStep =>
       \A other \in Replies :
         SameButStepKey(extraction_response', other) =>
           update_state(OldRecord, LatestText, other).obj = NewRecord]_vars

\* C7: an update object overwrites exactly the fields it names with a value
\* other than "None"; unknown keys and "None" values change nothing and
\* keep neither the other keys from being applied nor the step from being
\* recomputed.
C7_UpdateAppliedPerKey ==
  [][ExtractionStep /\ extraction_response'.kind = "object" =>
       LET items == extraction_response'.items
           Applies(i) == items[i][1] \in DataFields /\ items[i][2] # PyStr("None")
       IN /\ \A f \in DataFields :
               IF \E i \in DOMAIN items : items[i][1] = f /\ Applies(i)
               THEN \E i \in DOMAIN items : items[i][1] = f /\ NewRecord[f] = items[i][2]
               ELSE NewRecord[f] = OldRecord[f]
          /\ NewRecord.step = PyStr(DetermineStep(NewRecord, LatestText))]_vars

\* C8: a data field whose key is absent from the oracle's update keeps its
\* value over the extraction step.
C8_AbsentKeysUnchanged ==
  [][ExtractionStep =>
       \A f \in DataFields :
         f \notin KeysOf(extraction_response'.items) => NewRecord[f] = OldRecord[f]]_vars

\* An update naming store_id alone replaced it and left the populated
\* team_name and selections alone.
C8_Witness ==
  /\ pc = "respond"
  /\ extraction_response = JsonObject(<< <<"store_id", PyStr("S2")>> >>)
  /\ current_state.onboarding_state.store_id = PyStr("S2")
  /\ current_state.onboarding_state.team_name = PyStr("T1")
  /\ current_state.onboarding_state.selected_identities = PyList(<<"I">>)

\* The record of session "default" as the server holds it: the one the turn
\* in flight works on, else the stored one, else the default of a new session.
EffectiveRecord ==
  IF pc # "idle"
  THEN current_state.onboarding_state
  ELSE SessionGet(session_states, "default").onboarding_state

\* The step is a reset: the only step that starts and ends with no turn in
\* flight.
ResetStep == pc = "idle" /\ pc' = "idle"

\* The entries of the update object applied by the step, if it is an
\* extraction step whose reply is an object.
SuppliedItems ==
  IF ExtractionStep /\ extraction_response'.kind = "object"
  THEN extraction_response'.items
  ELSE <<>>

\* C9 as claimed: without a reset, a populated data field is empty after a
\* step only if the update of that step names it with an empty value;
\* otherwise it stays populated, and any non-empty value supplied for it
\* replaces the old one.
C9_OnlyExplicitEmptyClears ==
  [][~ResetStep =>
       \A f \in DataFields :
         ~IsEmpty(EffectiveRecord[f]) =>
           /\ IsEmpty(EffectiveRecord'[f]) =>
                \E i \in DOMAIN SuppliedItems :
                  SuppliedItems[i][1] = f /\ IsEmpty(SuppliedItems[i][2])
           /\ \A i \in DOMAIN SuppliedItems :
                SuppliedItems[i][1] = f /\ ~IsEmpty(SuppliedItems[i][2]) =>
                  EffectiveRecord'[f] = SuppliedItems[i][2]]_vars

\* The update loop gets as far as entry i: no earlier entry names, with a
\* value other than "None", an attribute of the record that is not a field.
Reached(items, i) ==
  \A j \in 1..(i - 1) :
    ~(/\ hasattr(OnboardingState, items[j][1])
      /\ items[j][1] \notin FieldNames
      /\ items[j][2] # PyStr("None"))

\* C9 as amended: without a reset, a populated data field is empty after a
\* step only if the update of that step names it with an empty value; a
\* supplied non-empty value replaces the old one when it is not the literal
\* "None" and the update loop reaches its entry, and in every other case
\* the field keeps the value it had.
C9_ClearedOnlyByExplicitEmpty ==
  [][~ResetStep =>
       \A f \in DataFields :
         ~IsEmpty(EffectiveRecord[f]) =>
           LET written == {i \in DOMAIN SuppliedItems :
                             /\ SuppliedItems[i][1] = f
                             /\ SuppliedItems[i][2] # PyStr("None")
                             /\ Reached(SuppliedItems, i)}
           IN /\ IsEmpty(EffectiveRecord'[f]) =>
                   \E i \in DOMAIN SuppliedItems :
                     SuppliedItems[i][1] = f /\ IsEmpty(SuppliedItems[i][2])
              /\ \A i \in written : EffectiveRecord'[f] = SuppliedItems[i][2]
              /\ written = {} => EffectiveRecord'[f] = EffectiveRecord[f]]_vars

\* A second turn emptied the store_id an earlier turn had populated together
\* with the other fields, by an update naming it with the empty string.
C9_Witness ==
  /\ pc = "respond"
  /\ turns = 2
  /\ extraction_response = JsonObject(<< <<"store_id", PyStr("")>> >>)
  /\ current_state.onboarding_state.store_id = PyStr("")
  /\ current_state.onboarding_state.team_name = PyStr("T1")
  /\ current_state.onboarding_state.selected_identities = PyList(<<"I">>)

\* C10: a turn that returns a result returns the assistant text, the record
\* and completed, where completed holds exactly when the record's step is
\* "completed" and the text is the last assistant message of the history the
\* turn produced, which is the history stored with the returned record.
C10_ResponseTriple ==
  chat_response.status = "ok" =>
    /\ chat_response.completed = (chat_response.state.step = PyStr("completed"))
    /\ "default" \in DOMAIN session_states =>
         LET stored == session_states["default"]
             last == stored.messages[Len(stored.messages)]
         IN /\ last.type = "ai"
            /\ chat_response.response = last.content
            /\ chat_response.state = stored.onboarding_state

\* The second turn of a session returned completed with that turn's text,
\* after a first turn whose text was another.
C10_Witness ==
  /\ chat_response.status = "ok"
  /\ chat_response.completed
  /\ chat_response.response = ScenarioDText
  /\ AllDataFieldsSet(chat_response.state)
  /\ "default" \in DOMAIN session_states
  /\ Len(session_states["default"].messages) = 4
  /\ session_states["default"].messages[2].content = ScenarioEText

(***************************************************************************)
(* Sessions: history, failing turns, state read and reset.                 *)
(***************************************************************************)
\* A step that ends a turn with a result, and one that ends it in the
\* except branch.
TurnCompletes == pc = "respond" /\ pc' = "idle" /\ chat_response'.status = "ok"

TurnFails == pc # "idle" /\ pc' = "idle" /\ chat_response'.status = "error"

\* The session a turn in flight belongs to.
TurnSession == current_state.session_id

\* Human and AI messages in turn, starting with a human one and ending with
\* an AI one.
Alternating(messages) ==
  /\ Len(messages) % 2 = 0
  /\ \A i \in 1..Len(messages) :
       messages[i].type = IF i % 2 = 1 THEN "human" ELSE "ai"

\* The stored histories of the sessions no turn is working on.
HistoriesAlternate ==
  \A sid \in DOMAIN session_states :
    (pc = "idle" \/ TurnSession # sid) => Alternating(session_states[sid].messages)

\* What a completed turn stores is the history the turn found, then the
\* user's message, then one assistant message.
TurnExtendsHistory ==
  TurnCompletes =>
    LET stored == session_states'[TurnSession].messages
        n == Len(before_turn.messages)
    IN /\ Len(stored) = n + 2
       /\ SubSeq(stored, 1, n) = before_turn.messages
       /\ stored[n + 1] = HumanMessage(UserText)
       /\ stored[n + 2].type = "ai"

\* C11: the history of a session is append-only: a completed turn extends the
\* history held before it by the user's message and exactly one assistant
\* message, and the stored history of a session is n user and n assistant
\* messages in alternation.
C11_HistoryAppendOnly == [][TurnExtendsHistory]_vars /\ []HistoriesAlternate

\* The assistant message of the turn in flight is the apology of _run_agent's
\* except branch.
AgentRaised == pc = "respond" /\ LatestText = error_response

\* C12: when the agent step raises, the turn answers with the fixed apology
\* and stores the record the turn found, every data field and the step as
\* they were before the turn.
C12_AgentFailureKeepsRecord ==
  [][TurnCompletes /\ AgentRaised =>
       /\ chat_response'.response = error_response
       /\ chat_response'.state = before_turn.onboarding_state
       /\ session_states'[TurnSession].onboarding_state = before_turn.onboarding_state]_vars

\* A record left "completed" by an earlier turn, the agent raising in the
\* next turn, the extraction oracle answering with the empty object, and
\* the step no longer "completed".
C12_StepRegresses ==
  /\ AgentRaised
  /\ before_turn.onboarding_state.step = PyStr("completed")
  /\ extraction_response = JsonObject(<<>>)
  /\ current_state.onboarding_state.step = PyStr("in_progress")

\* C13: a turn that ends in a request failure leaves the registry as the
\* turn found it: the session's stored history and record, or the absence of
\* an entry, are those from before the turn.
C13_FailedTurnLeavesRegistry ==
  [][TurnFails => /\ EntryOf(session_states', TurnSession) = before_turn
                  /\ \A sid \in SessionIds \ {TurnSession} :
                       EntryOf(session_states', sid) = EntryOf(session_states, sid)]_vars

\* A failed turn of a session that had none stored leaves the registry
\* without an entry for it.
C13_NewSessionFailureLeavesNothing ==
  [][TurnFails /\ ~before_turn.stored => TurnSession \notin DOMAIN session_states']_vars

\* The steps of the three handlers as the state shows them.
TurnBegins == pc = "idle" /\ pc' = "agent"

ResetOf(sid) ==
  /\ pc = "idle" /\ pc' = "idle"
  /\ session_response'.op = "reset" /\ session_response'.session_id = sid

ReadOf(sid) ==
  /\ pc = "idle" /\ pc' = "idle"
  /\ session_response'.op = "state" /\ session_response'.session_id = sid

\* The record of a session nothing is known of yet.
IsDefaultRecord(record) ==
  /\ \A f \in DataFields : record[f] = PyNone
  /\ record.step = PyStr("collect_store_id")

\* C14: a reset removes the session, and until a turn for that id completes
\* a state read for it returns the default record and a turn for it starts
\* from the default record and an empty history; resetting an id that has no
\* session answers all the same and changes nothing.
C14_ResetStartsFresh ==
  [][\A sid \in SessionIds :
       /\ ResetOf(sid) =>
            /\ sid \notin DOMAIN session_states'
            /\ session_response'.message = "Session reset successfully"
            /\ sid \notin DOMAIN session_states => session_states' = session_states
       /\ sid \notin DOMAIN session_states /\ sid \in DOMAIN session_states' =>
            TurnCompletes /\ TurnSession = sid
       /\ ReadOf(sid) /\ sid \notin DOMAIN session_states =>
            IsDefaultRecord(session_response'.state)
       /\ TurnBegins /\ TurnSession' = sid /\ sid \notin DOMAIN session_states =>
            /\ current_state'.messages = <<HumanMessage(UserText)>>
            /\ IsDefaultRecord(current_state'.onboarding_state)]_vars

\* A turn of "other" stored S1, a turn of "default" then returned S2, and
\* now "default" has no entry and its state read returned the default record.
C14_Witness ==
  /\ pc = "idle"
  /\ turns = 2
  /\ chat_response.status = "ok"
  /\ chat_response.state.store_id = PyStr("S2")
  /\ "other" \in DOMAIN session_states
  /\ session_states["other"].onboarding_state.store_id = PyStr("S1")
  /\ "default" \notin DOMAIN session_states
  /\ session_response.op = "state"
  /\ session_response.session_id = "default"
  /\ IsDefaultRecord(session_response.state)

\* A state read answers with the record the registry holds for the id, or
\* with the default record when it holds none, and leaves the registry as it
\* is.
ReadReturnsRegistry ==
  \A sid \in SessionIds :
    ReadOf(sid) =>
      /\ session_response'.state =
           IF sid \in DOMAIN session_states
           THEN session_states[sid].onboarding_state
           ELSE OnboardingState
      /\ IsDefaultRecord(OnboardingState)
      /\ session_states' = session_states

\* The record the registry holds for a session is the one a completed turn
\* stored: a turn that fails leaves the stored record as it found it.
StoredByCompletedTurn ==
  TurnFails /\ before_turn.stored =>
    session_states'[TurnSession].onboarding_state = before_turn.onboarding_state

\* C15: a state read returns the record most recently stored for the id by
\* a completed turn, or the default record if the id is unseen, and leaves
\* the registry unchanged.
C15_ReadReturnsLastStored == [][ReadReturnsRegistry /\ StoredByCompletedTurn]_vars

\* The part of C15 that is the read handler's own.
C15_ReadReturnsRegistryEntry == [][ReadReturnsRegistry]_vars

\* The step belongs to a turn, and the session that turn is for.
TurnStep == pc # "idle" \/ pc' # "idle"

StepSession == IF pc = "idle" THEN current_state'.session_id ELSE TurnSession

\* C16: a step of a turn for one session id, and a reset of one session id,
\* leave what the registry holds for every other id, history and record, as
\* it was: nothing one session writes shows in another.
C16_OtherSessionsUnchanged ==
  [][\A sid \in SessionIds :
       \/ TurnStep /\ StepSession # sid
       \/ \E other \in SessionIds \ {sid} : ResetOf(other)
       => EntryOf(session_states', sid) = EntryOf(session_states, sid)]_vars

\* Both sessions were created from the default and stored with S1; a later
\* turn of "default" has written S2 into its stored record, and "other"
\* still holds S1 and its two messages.
C16_Witness ==
  /\ pc = "respond"
  /\ TurnSession = "default"
  /\ before_turn.stored
  /\ before_turn.onboarding_state.store_id = PyStr("S1")
  /\ session_states["default"].onboarding_state.store_id = PyStr("S2")
  /\ "other" \in DOMAIN session_states
  /\ session_states["other"].onboarding_state.store_id = PyStr("S1")
  /\ Len(session_states["other"].messages) = 2

(***************************************************************************)
(* Concurrent requests.                                                    *)
(***************************************************************************)
\* The requests for a session whose turn has returned, and those whose turn
\* has read the session and not yet stored it.
DoneFor(sid) == {r \in Requests : tasks[r].pc = "done" /\ tasks[r].session_id = sid}

InTurnFor(sid) == {r \in Requests : tasks[r].pc = "awaiting" /\ tasks[r].session_id = sid}

\* A turn reads the session only when every other turn of that session has
\* stored its result or not begun.
ReadsAfterStore ==
  \A r \in Requests :
    tasks[r].pc = "arrived" /\ tasks'[r].pc = "awaiting" =>
      InTurnFor(tasks[r].session_id) = {}

\* What the turns of a session that returned have left in the registry: two
\* messages each, in alternation, the assistant message of each, and the
\* field each one's extraction set.
NothingLost ==
  \A sid \in SessionIds :
    InTurnFor(sid) = {} /\ DoneFor(sid) # {} =>
      /\ sid \in DOMAIN session_states
      /\ Len(session_states[sid].messages) = 2 * Cardinality(DoneFor(sid))
      /\ Alternating(session_states[sid].messages)
      /\ \A r \in DoneFor(sid) :
           /\ \E i \in 1..Len(session_states[sid].messages) :
                session_states[sid].messages[i] = AIMessage(tasks[r].response)
           /\ \A j \in 1..Len(tasks[r].reply.items) :
                session_states[sid].onboarding_state[tasks[r].reply.items[j][1]] =
                  tasks[r].reply.items[j][2]

C17_WitnessBothStored ==
  /\ DoneFor("default") = {1, 2}
  /\ tasks[1].reply # tasks[2].reply
  /\ tasks[1].response # tasks[2].response
  /\ Len(session_states["default"].messages) = 4
  /\ Truthy(session_states["default"].onboarding_state.store_id)
  /\ Truthy(session_states["default"].onboarding_state.team_name)

(***************************************************************************)
(* The tool gateway client.                                                *)
(***************************************************************************)
\* The callers inside the critical section of _ensure_connection.
Connecting == {c \in Callers : callers[c].pc = "initializing"}

\* The caller takes up the call of the tool in this step.
IssuesCall(c) == callers[c].pc # "calling" /\ callers'[c].pc = "calling"

\* A session is created only by the holder of the lock and only while the
\* client has none; the client loses its session only when a close returns;
\* a call goes to the session the client holds.
ConnectsWhenUnconnected ==
  /\ Len(sessions') # Len(sessions) =>
       /\ IsNone(session) /\ lock = 0
       /\ Len(sessions') = Len(sessions) + 1
       /\ session' = Len(sessions')
       /\ lock' \in Callers /\ callers'[lock'].on = session'
  /\ session' # session /\ ~IsNone(session) =>
       \E c \in Callers : callers[c].pc = "closing" /\ callers'[c].pc = "done"
  /\ \A c \in Callers :
       IssuesCall(c) => ~IsNone(session') /\ callers'[c].on = session'

\* At most one caller is connecting, and it holds the lock; initialize is
\* called once on each session; as long as no close has returned there is
\* at most one session, and it is the client's.
ConnectedOnce ==
  /\ Cardinality(Connecting) <= 1
  /\ \A c \in Connecting : lock = c
  /\ \A i \in 1..Len(sessions) :
       /\ sessions[i].initialize_calls = 1
       /\ sessions[i].initialized = "pending" =>
            \E c \in Connecting : callers[c].on = i
  /\ (\A i \in 1..Len(sessions) : ~sessions[i].closed) =>
       /\ Len(sessions) <= 1
       /\ Len(sessions) = 1 => session = 1

\* C18: establishing the connection is idempotent and mutually exclusive:
\* however many calls run at once or in succession with no close between
\* them, one session is created and initialize called on it once, and every
\* later call uses that session.
C18_ConnectionEstablishedOnce == [][ConnectsWhenUnconnected]_vars /\ []ConnectedOnce

\* Two calls are in flight at once on the one session that was created, the
\* third operation of the run.
C18_Witness ==
  /\ ops = 3
  /\ Len(sessions) = 1
  /\ sessions[1].initialized = "yes"
  /\ \A c \in {1, 2} : callers[c].pc = "calling" /\ callers[c].on = 1

\* close() called by c returns to its caller in this step, normally or with
\* an exception.
CloseEnds(c) ==
  /\ callers'[c].op = "close" /\ callers'[c].pc = "done"
  /\ \/ callers[c].pc = "closing"
     \/ /\ ops' # ops
        /\ callers'[c] = [NoCaller EXCEPT !.op = "close", !.pc = "done"]
        /\ \A d \in Callers \ {c} : callers'[d] = callers[d]

\* C19: close() never raises and leaves the client unconnected: on a client
\* with no session it does nothing; on a connected client it releases the
\* session, so that the next call connects anew.
C19_CloseIdempotent ==
  [][\A c \in Callers :
       CloseEnds(c) =>
         /\ ~callers'[c].raised
         /\ IsNone(session')
         /\ IsNone(session) => UNCHANGED <<session, lock, sessions>>]_vars

\* The part of C19 about a client with no session: close() returns at once,
\* raises nothing and changes nothing.
C19_CloseOnUnconnected ==
  [][\A c \in Callers :
       CloseEnds(c) /\ callers[c].pc # "closing" =>
         /\ IsNone(session) /\ IsNone(session')
         /\ ~callers'[c].raised
         /\ UNCHANGED <<session, lock, sessions>>]_vars

\* close() was called on a connected client, session.close() raised, and the
\* client still holds the session.
C19_CloseRaised ==
  \E c \in Callers :
    /\ callers[c].op = "close" /\ callers[c].pc = "done" /\ callers[c].raised
    /\ session = callers[c].on
    /\ ~sessions[session].closed

\* ---- C20 ----

\* The ways a remote call fails before the operation answers.
RemoteFailures == {"connect", "initialize", "no_session", "raises", "empty", "unparseable"}

\* Caller c has returned from operation op after its remote call failed.
FailedOver(c, op) ==
  /\ callers[c].pc = "done"
  /\ callers[c].op = op
  /\ callers[c].error \in RemoteFailures

AgentStepEnds == pc = "agent" /\ pc' = "update_state"

\* The node ends after the executor ran its loop to the limit.
CapReached == AgentStepEnds /\ iterations = max_iterations

CappedAtFive == iterations <= 5

\* C21: the agent step performs at most 5 tool-call iterations in a turn; a
\* turn in which the oracle keeps asking for tools ends after the fifth, its
\* assistant message is then the generic apology, and no error reaches the
\* turn controller.
C21_CapEndsWithApology ==
  /\ []CappedAtFive
  /\ [][CapReached =>
          /\ current_state'.messages =
               Append(current_state.messages, AIMessage(error_response))
          /\ chat_response' = chat_response]_vars

\* The same with the executor's stopped response in place of the apology.
C21_CapEndsWithStoppedResponse ==
  /\ []CappedAtFive
  /\ [][CapReached =>
          /\ current_state'.messages =
               Append(current_state.messages, AIMessage(AgentStoppedText))
          /\ chat_response' = chat_response]_vars

\* A turn answered with the stopped response after five tool calls.
C21_StoppedAnswerReturned ==
  /\ pc = "idle"
  /\ chat_response.status = "ok"
  /\ chat_response.response = AgentStoppedText

\* ---- C22 ----

\* The turn leaves the workflow after an extraction step that failed.
TurnEndsAfterExtractionFailure == pc = "respond" /\ update_error /\ pc' # pc

\* The message the agent node appended in the turn in flight: the one after
\* the user's message, which follows what the registry held before.
AgentMessageOfTurn == current_state.messages[Len(before_turn.messages) + 2]

\* C22: a turn whose extraction step fails still succeeds: it returns a
\* result, not a request failure, whose assistant text is exactly the message
\* the agent step produced in that turn, and that message is stored in the
\* session's history.
C22_ExtractionFailureStillAnswers ==
  [][TurnEndsAfterExtractionFailure =>
       /\ Len(current_state.messages) = Len(before_turn.messages) + 2
       /\ AgentMessageOfTurn.type = "ai"
       /\ chat_response'.status = "ok"
       /\ chat_response'.response = AgentMessageOfTurn.content
       /\ TurnSession \in DOMAIN session_states'
       /\ session_states'[TurnSession].messages =
            before_turn.messages \o
              <<HumanMessage(UserText), AgentMessageOfTurn>>]_vars

\* A second turn answered although its extraction failed, with a text that
\* differs from the first turn's.
C22_Witness ==
  /\ pc = "idle"
  /\ update_error
  /\ chat_response.status = "ok"
  /\ "default" \in DOMAIN session_states
  /\ Len(session_states["default"].messages) = 4
  /\ session_states["default"].messages[2].content # chat_response.response
  /\ session_states["default"].messages[4].content = chat_response.response

\* ---- C23 ----

\* The step recomputation applied to a record: the extraction step with an
\* update that names no key.
Recomputed(obj, text) == update_state(obj, text, JsonObject(<<>>)).obj

SameDataFields(a, b) == \A f \in DataFields : a[f] = b[f]

\* C23: recomputing the step is idempotent and touches nothing else: a
\* second application to the same record and the same assistant text yields
\* the step of the first, and neither application changes a data field.
C23_RecomputationIdempotent ==
  \A text \in AssistantTexts :
    LET record == current_state.onboarding_state
        once == Recomputed(record, text)
        twice == Recomputed(once, text)
    IN /\ twice.step = once.step
       /\ DOMAIN once = DOMAIN record
       /\ SameDataFields(once, record)
       /\ SameDataFields(twice, record)

\* The recomputation was applied by a turn and moved the step, and a second
\* application would start from the moved step.
C23_Witness ==
  /\ pc = "respond"
  /\ extraction_response = JsonObject(<<>>)
  /\ ~update_error
  /\ current_state.onboarding_state.step # before_turn.onboarding_state.step
  /\ current_state.onboarding_state =
       Recomputed(before_turn.onboarding_state, LatestText)
  /\ AllDataFieldsSet(current_state.onboarding_state)

\* ---- C24 ----

\* Every session the registry holds is the one named "default".
OnlyDefaultStored == DOMAIN session_states \subseteq {"default"}

\* The turn that begins works on what the registry holds for "default".
TurnReadsDefault ==
  TurnBegins =>
    /\ current_state'.session_id = "default"
    /\ current_state'.messages =
         Append(EntryOf(session_states, "default").messages, HumanMessage(UserText))
    /\ current_state'.onboarding_state =
         EntryOf(session_states, "default").onboarding_state

\* The turn that completes stores its history and record under "default".
TurnWritesDefault ==
  TurnCompletes =>
    session_states' =
      [k \in {"default"} |->
         [messages |-> current_state.messages,
          onboarding_state |-> current_state.onboarding_state]]

\* A state read of "default" returns the record stored there, and a reset of
\* "default" removes it.
DefaultObserved ==
  /\ ReadOf("default") /\ "default" \in DOMAIN session_states =>
       session_response'.state = session_states["default"].onboarding_state
  /\ ResetOf("default") => session_states' = [k \in {} |-> NoTurn]

\* C24: a turn request that carries no session_id is processed against the
\* session whose id is the literal "default": it reads and writes the same
\* history and record as a request with session_id "default", and a state
\* read or reset of "default" observes or removes what that turn stored.
C24_AbsentIdIsDefault ==
  /\ []OnlyDefaultStored
  /\ [][TurnReadsDefault /\ TurnWritesDefault /\ DefaultObserved]_vars

\* Two turns shared one history under "default", and the state read of
\* "default" returned the record they left.
C24_Witness ==
  /\ pc = "idle"
  /\ turns = 2
  /\ "default" \in DOMAIN session_states
  /\ Len(session_states["default"].messages) = 4
  /\ session_response.op = "state"
  /\ session_response.session_id = "default"
  /\ session_response.state.store_id = PyStr("S2")
  /\ session_response.state = session_states["default"].onboarding_state

\* The reset of "default" removed what a turn had stored.
C24_WitnessReset ==
  /\ pc = "idle"
  /\ turns = 1
  /\ chat_response.status = "ok"
  /\ session_response.op = "reset"
  /\ session_states = [k \in {} |-> NoTurn]

\* ---- C25 ----

\* The modes the claim lets a caller select.  MCPClient takes no such
\* argument and reads no setting: what a call does is the same in each.
Modes == {"development", "production"}

\* Caller c got the mock's result for its failed call.
ReturnedMock(c) ==
  /\ callers[c].result.kind = "value"
  /\ callers[c].result.value = Fallback(process, callers[c].op, callers[c].args)
  /\ ~callers[c].raised

\* The failure of c's call reached c.
Surfaced(c) == callers[c].raised /\ callers[c].result.kind = "none"

\* C25: the handling of a failed gateway call is a mode the caller selects:
\* in development mode the operation falls back to the local mock, and in
\* production mode the failure is surfaced and the operation never returns
\* mock data.
C25_ModeSelectsFailureHandling ==
  \A mode \in Modes, c \in Callers, op \in Operations :
    FailedOver(c, op) =>
      /\ mode = "development" => ReturnedMock(c)
      /\ mode = "production" => Surfaced(c)

\* What the client does in every mode: it falls back.
C25_AlwaysFallsBack ==
  \A mode \in Modes, c \in Callers, op \in Operations :
    FailedOver(c, op) => ReturnedMock(c)

\* A failed call answered with the mock's data.
C25_MockReturned ==
  \E c \in Callers :
    /\ FailedOver(c, "get_profile_and_team_name")
    /\ callers[c].error = "raises"
    /\ ReturnedMock(c)

\* ---- C26 ----

\* C26: no remote tool call is issued on a session whose initialization has
\* not completed: under any interleaving of concurrent gateway calls on one
\* client, every call_tool happens after the initialize of the session it
\* uses has returned successfully.
C26_CallsAfterInitialize ==
  [][\A c \in Callers :
       IssuesCall(c) => sessions'[callers'[c].on].initialized = "yes"]_vars

\* A caller is in call_tool on the session another caller is still
\* initializing under the lock.
C26_CallDuringInitialize ==
  \E c, d \in Callers :
    /\ callers[c].pc = "calling"
    /\ callers[d].pc = "initializing"
    /\ lock = d
    /\ callers[c].on = callers[d].on
    /\ sessions[callers[c].on].initialized = "pending"

\* The caller that created the session calls only once its initialize has
\* returned.
C26_CreatorCallsAfterInitialize ==
  [][\A c \in Callers :
       IssuesCall(c) /\ callers[c].pc = "initializing" =>
         sessions'[callers'[c].on].initialized = "yes"]_vars

\* ---- C27 ----

\* Caller c's attempt to establish the connection has just failed.
ConnectFailed(c) ==
  /\ callers[c].pc \in {"idle", "done", "wait_lock", "initializing"}
  /\ callers'[c].pc = "done"
  /\ callers'[c] # callers[c]
  /\ callers'[c].error \in {"connect", "initialize"}

\* C27: if establishing the connection fails (creating the transport or
\* initializing the session raises), the client is left unconnected, so the
\* next gateway call attempts to establish the connection again instead of
\* using a session that was never initialized.
C27_FailedConnectLeavesUnconnected ==
  [][\A c \in Callers :
       /\ ConnectFailed(c) => session' = 0
       /\ IssuesCall(c) => sessions'[callers'[c].on].initialized # "failed"]_vars

\* The part that holds: when creating the transport or the session raises,
\* no session has been assigned.
C27_FailedCreateLeavesUnconnected ==
  [][\A c \in Callers :
       ConnectFailed(c) /\ callers'[c].error = "connect" => session' = 0]_vars

\* After an initialize that raised, a later call is in call_tool on that
\* session, with no second initialize.
C27_CallOnFailedSession ==
  \E c \in Callers :
    /\ callers[c].pc = "calling"
    /\ session = callers[c].on
    /\ sessions[session].initialized = "failed"
    /\ sessions[session].initialize_calls = 1
    /\ \A d \in Callers : callers[d].pc # "initializing"

\* ---- C28 ----

\* collect_store_id < fetch_store_info < fetch_b2b_data < collect_selections
\*   < {in_progress, completed}
Phase(step) ==
  CASE step = PyStr("collect_store_id") -> 1
    [] step = PyStr("fetch_store_info") -> 2
    [] step = PyStr("fetch_b2b_data") -> 3
    [] step = PyStr("collect_selections") -> 4
    [] step \in {PyStr("in_progress"), PyStr("completed")} -> 5
    [] OTHER -> 0

\* The update applied by the step names a populated data field with an
\* empty value.
SuppliesEmptyForPopulated ==
  \E i \in DOMAIN SuppliedItems :
    /\ SuppliedItems[i][1] \in DataFields
    /\ ~IsEmpty(EffectiveRecord[SuppliedItems[i][1]])
    /\ IsEmpty(SuppliedItems[i][2])

\* The record's step is in the phase its data fields determine.
StepFitsFields(record) == Phase(record.step) = Phase(PyStr(DetermineStep(record, ScenarioEText)))

\* C28: with the phases ordered as above, the phase of a session's step
\* never decreases from one turn to the next as long as no extraction update
\* supplies an empty value for a populated field and there is no reset, also
\* across turns whose agent step or extraction step failed.
C28_PhaseNeverDecreases ==
  [][~ResetStep /\ ~SuppliesEmptyForPopulated =>
       Phase(EffectiveRecord'.step) >= Phase(EffectiveRecord.step)]_vars

\* The same for records whose step fits their data fields.
C28_FittingPhaseNeverDecreases ==
  [][~ResetStep /\ ~SuppliesEmptyForPopulated /\ StepFitsFields(EffectiveRecord) =>
       Phase(EffectiveRecord'.step) >= Phase(EffectiveRecord.step)]_vars

\* A first turn left "completed" on a record with no data, and the second
\* turn, whose update names no key, stepped back to "collect_store_id".
C28_PhaseDecreased ==
  /\ pc = "respond"
  /\ turns = 2
  /\ extraction_response = JsonObject(<<>>)
  /\ before_turn.onboarding_state.step = PyStr("completed")
  /\ current_state.onboarding_state.step = PyStr("collect_store_id")

\* ---- C29 ----

\* The six values of the step.
StepNames ==
  {PyStr("collect_store_id"), PyStr("fetch_store_info"), PyStr("fetch_b2b_data"),
   PyStr("collect_selections"), PyStr("in_progress"), PyStr("completed")}

\* C29: in every reachable state the step of every stored or returned
\* record is one of the six values "collect_store_id", "fetch_store_info",
\* "fetch_b2b_data", "collect_selections", "in_progress", "completed",
\* whatever the extraction oracle supplies under the "step" key and whether
\* or not the extraction step fails.
C29_StepIsOneOfSix == \A record \in RecordsInState : record.step \in StepNames

\* The part that holds: an extraction step that does not fail, or that fails
\* before its loop, leaves one of the six values.
C29_UnfailedStepIsOneOfSix ==
  [][ExtractionStep /\ (~update_error' \/ extraction_response'.kind # "object") =>
       NewRecord.step \in StepNames]_vars

\* The oracle's own word is the step of the stored record.
C29_StepOutsideSix ==
  /\ pc = "respond"
  /\ update_error
  /\ extraction_response = JsonObject(<< <<"step", PyStr("done")>>, <<"dict", PyStr("x")>> >>)
  /\ session_states["default"].onboarding_state.step = PyStr("done")

\* null is the step of the stored record.
C29_StepIsNone ==
  /\ pc = "respond"
  /\ session_states["default"].onboarding_state.step = PyNone

\* ---- C30 ----

\* The handler of request r stores the result of its turn.
Stores(r) == tasks[r].pc = "awaiting" /\ tasks'[r].pc = "done"

\* The session r's turn read has been removed since: a reset completed
\* while the turn was being processed.
ResetSinceRead(r) ==
  /\ tasks[r].pc = "awaiting"
  /\ Len(tasks[r].messages) > 1
  /\ tasks[r].session_id \notin DOMAIN session_states

\* C30: a reset is not undone by a turn that was in flight for the same
\* session id: if the reset completes while the turn is being processed,
\* then once the turn has finished the registry holds no history from before
\* the reset and the record of the session is the default one.
C30_ResetNotUndone ==
  [][\A r \in Requests :
       Stores(r) /\ ResetSinceRead(r) =>
         \/ tasks[r].session_id \notin DOMAIN session_states'
         \/ /\ Len(session_states'[tasks[r].session_id].messages) <= 2
            /\ IsDefaultRecord(session_states'[tasks[r].session_id].onboarding_state)]_vars

\* The step is the reset handler run for sid.
ResetRunsFor(sid) ==
  /\ tasks' = tasks
  /\ session_response'.op = "reset"
  /\ session_response'.session_id = sid

\* No reset completes while a turn of its session is being processed: the
\* handler of the turn keeps the loop from its read to its store.
C30_NoResetDuringTurn ==
  /\ [][\A sid \in SessionIds : ResetRunsFor(sid) => InTurnFor(sid) = {}]_vars
  /\ [](\A r \in Requests : ~ResetSinceRead(r))

\* A reset removed the session a turn had stored, and the request of another
\* turn for it had already arrived.
C30_ResetBeforeWaitingTurn ==
  \E r, q \in Requests :
    /\ tasks[r].pc = "done"
    /\ tasks[q].pc = "arrived"
    /\ tasks[q].session_id = tasks[r].session_id
    /\ session_response.op = "reset"
    /\ session_response.session_id = tasks[r].session_id
    /\ tasks[r].session_id \notin DOMAIN session_states

(***************************************************************************)
(* C31: the tool adapters                                                  *)
(***************************************************************************)
\* Running the gateway operation for the adapter's call raised: asyncio.run
\* refused it, or the operation itself raised.
RunRaised(c) == tool_calls[c].refused \/ callers[c].raised

FailureText(c) == IF tool_calls[c].refused THEN RunningLoopText ELSE callers[c].error

AdapterReturned(c) == tool_calls[c].pc = "returned"

C31_WitnessArun ==
  \E c \in Callers :
    /\ AdapterReturned(c) /\ tool_calls[c].mode = "arun"
    /\ callers[c].error = "none"
    /\ tool_calls[c].output = callers[c].result.value

(***************************************************************************)
(* C32: the finalize operation                                             *)
(***************************************************************************)
\* The callers that have returned from onboard_user.
Finalized == {c \in Callers : callers[c].pc = "done" /\ callers[c].op = "onboard_user"}

\* What the caller holds echoes the five inputs of its call under status
\* "success".
EchoesInputs(c) ==
  LET result == callers[c].result.value
      args == callers[c].args
  IN /\ result.status = "success"
     /\ result.user_details =
          [store_id |-> args.store_id, team_name |-> args.team_name,
           profile_name |-> args.profile_name,
           selected_profiles |-> args.selected_profiles,
           selected_identities |-> args.selected_identities]

\* The mock called directly, in the gateway client's process, with the
\* arguments of the caller.
DirectMock(c) == Fallback(process, "onboard_user", callers[c].args)

\* C32: the finalize operation returns status "success" together with
\* user_details that echo its five inputs exactly as passed, and it is the
\* same result whether it is reached through the tool server, the gateway
\* client or the client's mock fallback.
C32_FinalizeSameByEveryPath ==
  \A c \in Finalized :
    /\ EchoesInputs(c)
    /\ callers[c].result.value = DirectMock(c)

\* The part that holds on every path: status "success" and the echo of the
\* five inputs.
C32_FinalizeEchoesInputs == \A c \in Finalized : EchoesInputs(c)

\* The tool server's answer has come back through the gateway client with
\* an onboarding_id the mock of the client's process does not give.
C32_ServerAndMockDiffer ==
  \E c \in Finalized :
    /\ callers[c].error = "none"
    /\ EchoesInputs(c)
    /\ callers[c].result.value.onboarding_id # DirectMock(c).onboarding_id

(***************************************************************************)
(* C33: the chat client after completion and on reset                      *)
(***************************************************************************)
\* The step types a message and posts it.
MessageSent == script_run'.typed = script_run.typed + 1

\* The step is a run of the script for the reset button.
ResetClicked ==
  script_run.pc = "ready" /\ script_run'.pc = "ready" /\ script_run'.last = "reset"

\* The client's local messages, record and completed flag are cleared.
Cleared(st) == st.messages = <<>> /\ st.onboarding_state = EmptyDict /\ ~st.completed

\* The server holds no session under the client's id.
ServerSessionDeleted == st_session_state.session_id \notin DOMAIN session_states

\* No message leaves a client whose flag is set, and only a reset unsets
\* the flag.
BlockedUntilReset ==
  /\ MessageSent => ~st_session_state.completed
  /\ (st_session_state.completed /\ ~st_session_state'.completed) => ResetClicked

\* C33: in the chat client, once a turn's response has completed = true, the
\* client sends no further message for that session until the user resets
\* it; a reset clears the client's local messages, record and completed flag
\* and requests deletion of the server session, after which messages can be
\* sent again.
C33_ResetClearsAndUnblocks ==
  [][/\ BlockedUntilReset
     /\ ResetClicked =>
          /\ Cleared(st_session_state')
          /\ script_run'.answered => ServerSessionDeleted']_vars

\* C33 as the code has it: a completed client sends nothing until a reset
\* succeeds; a reset requests deletion of the server session and clears the
\* local messages, record and flag when the request returns, and leaves
\* them as they were when the request raises.
C33_AnsweredResetClears ==
  [][/\ BlockedUntilReset
     /\ ResetClicked =>
          IF script_run'.answered
          THEN Cleared(st_session_state') /\ ServerSessionDeleted'
          ELSE st_session_state' = st_session_state]_vars

\* A reset the server answered, after a turn answered with completed =
\* true: the client is cleared, the server session is gone and the chat
\* input is there again.
C33_Witness ==
  /\ script_run.last = "reset" /\ script_run.answered
  /\ chat_response.status = "ok" /\ chat_response.completed
  /\ Cleared(st_session_state)
  /\ ServerSessionDeleted
  /\ script_run.pc = "ready"

\* A reset whose request raised has left a completed client as it was.
C33_WitnessBlocked ==
  /\ script_run.last = "reset" /\ ~script_run.answered
  /\ st_session_state.completed
  /\ st_session_state.messages # <<>>

\* A message typed after a reset is on its way, alone in the local messages.
C33_WitnessSentAgain ==
  /\ script_run.pc = "sending" /\ script_run.typed > 1
  /\ Len(st_session_state.messages) = 1
  /\ chat_response.status = "ok" /\ chat_response.completed

====
